---- MODULE Spec2Model ----
(***************************************************************************)
(* The coordinator (Controller) of a Junction: the packet queue, the       *)
(* message inventory (Bag), the Join Pattern registry, the inverted index, *)
(* the last-fired table, the firing of Join Patterns on worker threads,    *)
(* and the ControllerHandle used to stop the control thread.               *)
(***************************************************************************)
EXTENDS Integers, Sequences, FiniteSets, TLC

(* ------------------------------ bounds --------------------------------- *)

\* Number of channels the clients make.
MaxChannels == 2

\* Number of Join Patterns the clients register.
MaxPatterns == 2

\* Number of messages the clients and handlers send.
MaxMsgs == 3

\* Number of packets in flight in the mpsc queue.
MaxQueue == 2

\* Number of calls of ControllerHandle::stop.
MaxStops == 2

\* Number of calls of Junction::controller_handle.
MaxTakes == 2

\* Number of Junctions whose channels are offered to a builder.
MaxJunctions == 2

\* Number of channels of the inventories the aliveness test is applied to.
MaxAliveChannels == 3

\* Number of messages per channel in those inventories.
MaxAliveCount == 3

(* ------------------------------ state ---------------------------------- *)

VARIABLES
    queue,                   \* mpsc channel of Packets, Sender -> Receiver
    ctrl,                    \* control thread: "running", "stopped", "panicked"
    latest_channel_id,       \* Controller.latest_channel_id
    latest_join_pattern_id,  \* Controller.latest_join_pattern_id
    message_counter,         \* Controller.message_counter
    messages,                \* Controller.messages : Bag<ChannelId, Message>
    join_patterns,           \* Controller.join_patterns, entry id+1 is pattern id
    join_pattern_last_fired, \* Controller.join_pattern_last_fired, entry id+1
    join_pattern_index,      \* Controller.join_pattern_index
    channels,                \* client side: the channels made, each with the id it was given and its mode
    next_uid,                \* number of messages enveloped so far
    blocked,                 \* reply endpoints a consumer is blocked on
    broken,                  \* reply endpoints whose consumer got a RecvError
    ingested,                \* log: messages added to the inventory, in order
    fired,                   \* log: firings, in order
    running,                 \* firings whose handler thread has not run yet
    replies,                 \* log: values sent through reply endpoints
    control_thread_handle,   \* ControllerHandle.control_thread_handle
    stop_pc,                 \* the thread calling stop(): "idle", "joining", "panicked"
    stops_returned,          \* calls of stop() that returned
    failed,                  \* Option: the last operation of a client or handler thread that failed
    controller_handle,       \* Junction.controller_handle: "Some" or "None"
    junction,                \* the Junction: "alive", "dropping" (in Drop, joining), "dropped", "panicked"
    taken,                   \* log: the results of the calls of Junction::controller_handle
    probe                    \* Option: the result of the operation a component specification applies

vars == <<queue, ctrl, latest_channel_id, latest_join_pattern_id, message_counter,
          messages, join_patterns, join_pattern_last_fired, join_pattern_index,
          channels, next_uid, blocked, broken, ingested, fired, running,
          replies, control_thread_handle, stop_pc, stops_returned, failed,
          controller_handle, junction, taken, probe>>

controller_vars == <<latest_channel_id, latest_join_pattern_id, message_counter,
                     messages, join_patterns, join_pattern_last_fired,
                     join_pattern_index>>

log_vars == <<ingested, fired, running, replies>>

handle_vars == <<control_thread_handle, stop_pc, stops_returned, probe>>

junction_vars == <<controller_handle, junction, taken>>

ChannelIds == 0 .. (MaxChannels - 1)

Modes == {"Send", "Recv", "Bidir"}

\* Option<T>: None is the empty sequence, Some(v) is <<v>>.
None == <<>>

Some(v) == <<v>>

is_none(o) == o = None

is_some(o) == o # None

(* ------------------------- collections --------------------------------- *)

\* Bag::new
BagNew == [k \in ChannelIds |-> <<>>]

\* Bag::add putting the item at the front of the queue of the key.
BagAdd_front(bag, key, item) == [bag EXCEPT ![key] = <<item>> \o @]

\* Bag::add
BagAdd(bag, key, item) == [bag EXCEPT ![key] = Append(@, item)]

\* Bag::count_items
count_items(bag, key) == Len(bag[key])

\* InvertedIndex::new
IndexNew == [k \in ChannelIds |-> <<>>]

\* InvertedIndex::insert_single
insert_single(index, key, value) == [index EXCEPT ![key] = Append(@, value)]

\* InvertedIndex::peek_all
peek_all(index, key) == index[key]

\* Bag::retrieve popping the most recently added value (pop_back).
retrieve_pop_back(bag, key) ==
    IF Len(bag[key]) = 0
    THEN <<None, bag>>
    ELSE <<Some(bag[key][Len(bag[key])]),
           [bag EXCEPT ![key] = SubSeq(@, 1, Len(@) - 1)]>>

\* Bag::retrieve returning the front value without removing it (front).
retrieve_front(bag, key) ==
    IF Len(bag[key]) = 0
    THEN <<None, bag>>
    ELSE <<Some(Head(bag[key])), bag>>

\* Bag::retrieve taking the value from the first key that has one, whatever
\* the key asked for.
retrieve_any_key(bag, key) ==
    LET nonempty == {k \in DOMAIN bag : Len(bag[k]) > 0}
        first    == CHOOSE k \in nonempty : \A j \in nonempty : k <= j
    IN  IF nonempty = {}
        THEN <<None, bag>>
        ELSE <<Some(Head(bag[first])), [bag EXCEPT ![first] = Tail(@)]>>

\* Bag::retrieve: the pair <<Option<item>, bag after>>
retrieve(bag, key) ==
    IF Len(bag[key]) = 0
    THEN <<None, bag>>
    ELSE <<Some(Head(bag[key])), [bag EXCEPT ![key] = Tail(@)]>>

(* --------------------------- messages ---------------------------------- *)

\* Message::new: the envelope of a value; ty is the type of the boxed value:
\* "T" a raw value, "Sender" a reply endpoint Sender<R>, "TSender" a pair
\* (T, Sender<R>).  uid identifies the value (and the reply endpoint made
\* for it).
Message(uid, ty) == [uid |-> uid, ty |-> ty]

\* The envelope each channel mode posts.
EnvelopeOf(mode) ==
    IF mode = "Send" THEN "T" ELSE IF mode = "Recv" THEN "Sender" ELSE "TSender"

\* Packet variants.
MessagePacket(channel_id, msg) ==
    [type |-> "Message", channel_id |-> channel_id, msg |-> msg]

NewChannelIdRequest(mode) ==
    [type |-> "NewChannelIdRequest", mode |-> mode]

AddJoinPatternRequest(join_pattern) ==
    [type |-> "AddJoinPatternRequest", join_pattern |-> join_pattern]

ShutDownRequest == [type |-> "ShutDownRequest"]

(* --------------------------- aliveness --------------------------------- *)

\* Controller::is_unary_alive
is_unary_alive(bag, channel_id) == count_items(bag, channel_id) >= 1

\* Controller::is_binary_alive
is_binary_alive(bag, first_ch_id, second_ch_id) ==
    IF first_ch_id = second_ch_id
    THEN count_items(bag, first_ch_id) >= 2
    ELSE is_unary_alive(bag, first_ch_id) /\ is_unary_alive(bag, second_ch_id)

\* Controller::is_ternary_alive comparing neighbouring channels only.
is_ternary_alive_adjacent(bag, first_ch_id, second_ch_id, third_ch_id) ==
    IF first_ch_id = second_ch_id /\ second_ch_id = third_ch_id
    THEN count_items(bag, first_ch_id) >= 3
    ELSE /\ is_binary_alive(bag, first_ch_id, second_ch_id)
         /\ is_binary_alive(bag, second_ch_id, third_ch_id)

\* Controller::is_ternary_alive
is_ternary_alive(bag, first_ch_id, second_ch_id, third_ch_id) ==
    IF first_ch_id = second_ch_id /\ second_ch_id = third_ch_id
    THEN count_items(bag, first_ch_id) >= 3
    ELSE /\ is_binary_alive(bag, first_ch_id, second_ch_id)
         /\ is_binary_alive(bag, first_ch_id, third_ch_id)
         /\ is_binary_alive(bag, second_ch_id, third_ch_id)

\* JoinPattern::is_alive: group_by groups the consecutive equal entries of
\* channels(); each group needs as many messages as it has entries.  (The
\* coordinator does not call it.)
is_alive_group_by(bag, chans) ==
    \A i \in DOMAIN chans :
        (i = 1 \/ chans[i - 1] # chans[i]) =>
            count_items(bag, chans[i]) >=
                Cardinality({j \in i .. Len(chans) :
                                \A l \in i .. j : chans[l] = chans[i]})

\* The variant match of Controller::is_alive replaced by the grouping of
\* JoinPattern::is_alive.
alive_by_variant_group_by(bag, chans) == is_alive_group_by(bag, chans)

\* The match on the JoinPattern variant in Controller::is_alive: the arity
\* of the variant selects the test.
alive_by_variant(bag, chans) ==
    IF Len(chans) = 1 THEN is_unary_alive(bag, chans[1])
    ELSE IF Len(chans) = 2 THEN is_binary_alive(bag, chans[1], chans[2])
    ELSE is_ternary_alive(bag, chans[1], chans[2], chans[3])

\* Controller::is_alive
is_alive(patterns, bag, join_pattern_id) ==
    IF join_pattern_id + 1 \in DOMAIN patterns
    THEN alive_by_variant(bag, patterns[join_pattern_id + 1].channels)
    ELSE FALSE

\* Controller::alive_join_patterns: filter, in the order of the index list
RECURSIVE alive_join_patterns(_, _, _)
alive_join_patterns(patterns, bag, join_pattern_ids) ==
    IF join_pattern_ids = <<>> THEN <<>>
    ELSE LET rest == alive_join_patterns(patterns, bag, Tail(join_pattern_ids))
         IN  IF is_alive(patterns, bag, Head(join_pattern_ids))
             THEN <<Head(join_pattern_ids)>> \o rest
             ELSE rest

(* --------------------------- selection --------------------------------- *)

\* Controller::compare_last_fired with None ordered after every Some.
compare_last_fired_none_last(last_fired, jp_id_1, jp_id_2) ==
    LET last_fired_1 == last_fired[jp_id_1 + 1]
        last_fired_2 == last_fired[jp_id_2 + 1]
    IN  IF is_none(last_fired_1) /\ is_none(last_fired_2) THEN "Equal"
        ELSE IF is_none(last_fired_1) /\ is_some(last_fired_2) THEN "Greater"
        ELSE IF is_some(last_fired_1) /\ is_none(last_fired_2) THEN "Less"
        ELSE IF last_fired_1[1] < last_fired_2[1] THEN "Less"
        ELSE IF last_fired_1[1] > last_fired_2[1] THEN "Greater"
        ELSE "Equal"

\* Controller::compare_last_fired
compare_last_fired(last_fired, jp_id_1, jp_id_2) ==
    LET last_fired_1 == last_fired[jp_id_1 + 1]
        last_fired_2 == last_fired[jp_id_2 + 1]
    IN  IF is_none(last_fired_1) /\ is_none(last_fired_2) THEN "Equal"
        ELSE IF is_none(last_fired_1) /\ is_some(last_fired_2) THEN "Less"
        ELSE IF is_some(last_fired_1) /\ is_none(last_fired_2) THEN "Greater"
        ELSE IF last_fired_1[1] < last_fired_2[1] THEN "Less"
        ELSE IF last_fired_1[1] > last_fired_2[1] THEN "Greater"
        ELSE "Equal"

\* One insertion of slice::sort_unstable_by on a short slice (insertion
\* sort): x moves left past every element it is Less than.
RECURSIVE insert_tail(_, _, _)
insert_tail(last_fired, sorted, x) ==
    IF sorted = <<>> THEN <<x>>
    ELSE IF compare_last_fired(last_fired, x, sorted[Len(sorted)]) = "Less"
         THEN Append(insert_tail(last_fired, SubSeq(sorted, 1, Len(sorted) - 1), x),
                     sorted[Len(sorted)])
         ELSE Append(sorted, x)

\* slice::sort_unstable_by(compare_last_fired)
RECURSIVE sort_unstable_by(_, _)
sort_unstable_by(last_fired, ids) ==
    IF ids = <<>> THEN <<>>
    ELSE insert_tail(last_fired,
                     sort_unstable_by(last_fired, SubSeq(ids, 1, Len(ids) - 1)),
                     ids[Len(ids)])

\* Controller::select_to_fire: sort, then first()
select_to_fire(last_fired, alive_jp_ids) ==
    LET sorted == sort_unstable_by(last_fired, alive_jp_ids)
    IN  IF sorted = <<>> THEN None ELSE Some(sorted[1])

(* ----------------------------- firing ---------------------------------- *)

\* The loop of Controller::fire_join_pattern: one retrieve per entry of
\* channels(), in order.  ok is FALSE when a retrieve returned None (the
\* unwrap panics).
RECURSIVE retrieve_all(_, _, _)
retrieve_all(bag, chans, acc) ==
    IF chans = <<>> THEN [ok |-> TRUE, bag |-> bag, args |-> acc]
    ELSE LET r == retrieve(bag, Head(chans))
         IN  IF is_none(r[1])
             THEN [ok |-> FALSE, bag |-> r[2], args |-> acc]
             ELSE retrieve_all(r[2], Tail(chans), Append(acc, r[1][1]))

\* Controller::fire_join_pattern removing only the message of the first
\* channel of the list.
fire_join_pattern_first_only(patterns, bag, join_pattern_id) ==
    LET chans == patterns[join_pattern_id + 1].channels
        r     == retrieve_all(bag, chans, <<>>)
    IN  [r EXCEPT !.bag = retrieve(bag, chans[1])[2]]

\* Controller::fire_join_pattern handing the messages over in the reverse
\* of the order they were retrieved in.
fire_join_pattern_reversed(patterns, bag, join_pattern_id) ==
    LET r == retrieve_all(bag, patterns[join_pattern_id + 1].channels, <<>>)
    IN  [r EXCEPT !.args = [i \in DOMAIN r.args |-> r.args[Len(r.args) + 1 - i]]]

\* Controller::fire_join_pattern
fire_join_pattern(patterns, bag, join_pattern_id) ==
    retrieve_all(bag, patterns[join_pattern_id + 1].channels, <<>>)

\* Controller::reset_last_fired leaving the table as it is.
reset_last_fired_skip(last_fired, join_pattern_id, counter) == last_fired

\* Controller::reset_last_fired recording the count before the message of
\* the firing was counted.
reset_last_fired_before(last_fired, join_pattern_id, counter) ==
    [last_fired EXCEPT ![join_pattern_id + 1] = Some(counter - 1)]

\* Controller::reset_last_fired
reset_last_fired(last_fired, join_pattern_id, counter) ==
    [last_fired EXCEPT ![join_pattern_id + 1] = Some(counter)]

\* Controller::initialize_last_fired clearing the value of every pattern.
initialize_last_fired_all(last_fired, join_pattern_id) ==
    [i \in 1 .. (Len(last_fired) + 1) |-> None]

\* Controller::initialize_last_fired
initialize_last_fired(last_fired, join_pattern_id) ==
    IF join_pattern_id + 1 \in DOMAIN last_fired
    THEN [last_fired EXCEPT ![join_pattern_id + 1] = None]
    ELSE Append(last_fired, None)

\* Controller::relevant_join_patterns returning, after the list of the
\* channel, the list of another channel too.
relevant_join_patterns_wide(index, channel_id) ==
    peek_all(index, channel_id)
        \o peek_all(index, CHOOSE k \in DOMAIN index : k # channel_id)

\* Controller::relevant_join_patterns
relevant_join_patterns(index, channel_id) == peek_all(index, channel_id)

\* Controller::insert_join_pattern indexing the pattern under the first entry
\* of channels() only.
index_channels_first_only(index, chans, join_pattern_id) ==
    IF chans = <<>> THEN index
    ELSE insert_single(index, Head(chans), join_pattern_id)

\* Controller::insert_join_pattern, the index part: one insert_single per
\* entry of channels()
RECURSIVE index_channels(_, _, _)
index_channels(index, chans, join_pattern_id) ==
    IF chans = <<>> THEN index
    ELSE index_channels(insert_single(index, Head(chans), join_pattern_id),
                        Tail(chans), join_pattern_id)

(* ------------------------ handler threads ------------------------------ *)

\* JoinPattern variant: kind is Send, Recv or Bidir, channels() its list.
JoinPattern(kind, chans) == [kind |-> kind, channels |-> chans]

\* The value the client's function returns for the arguments it is given.
HandlerReturn(join_pattern_id, args) ==
    [jp |-> join_pattern_id, of |-> [i \in DOMAIN args |-> args[i].uid]]

\* function_transforms: the type the transformed function downcasts its
\* last argument to: the value type (transform_send), Sender<R>
\* (transform_recv) or (T, Sender<R>) (transform_bidir).
DowncastOf(kind) ==
    IF kind = "Send" THEN "T" ELSE IF kind = "Recv" THEN "Sender" ELSE "TSender"

\* function_transforms: the downcasts of the transformed function.  Every
\* argument but the last is downcast to its value type.
downcasts_ok(kind, args) ==
    /\ \A i \in 1 .. (Len(args) - 1) : args[i].ty = "T"
    /\ args[Len(args)].ty = DowncastOf(kind)

\* The reply endpoint taken from the first argument.
return_sender_first(args) == args[1].uid

\* function_transforms: the reply endpoint the transformed function sends
\* the return value through: the one in its last argument.
return_sender(args) == args[Len(args)].uid

(* --------------------------- client side ------------------------------- *)

\* Number of packets of a type in the queue.
InFlight(type) == Cardinality({i \in DOMAIN queue : queue[i].type = type})

\* The channel lists the partial patterns can build from the channels made
\* so far: up to two Send channels, then a channel of any mode; a list of one
\* or two Send channels may also be completed as it is.
RECURSIVE SeqsOver(_, _)
SeqsOver(S, n) ==
    IF n = 0 THEN {<<>>}
    ELSE {Append(q, x) : q \in SeqsOver(S, n - 1), x \in S}

\* The ids of the channels made, and the mode of the (first) channel made
\* with id k.
Created == {channels[i].id : i \in DOMAIN channels}

ModeOf(k) ==
    channels[CHOOSE i \in DOMAIN channels :
                /\ channels[i].id = k
                /\ \A j \in DOMAIN channels : channels[j].id = k => i <= j].mode

BuiltLists ==
    LET sends == {k \in Created : ModeOf(k) = "Send"}
    IN  {Append(q, k) : q \in SeqsOver(sends, 0) \cup SeqsOver(sends, 1)
                              \cup SeqsOver(sends, 2),
                        k \in Created}

\* Junction::new_channel_id returning the failure of the send to its caller.
NewChannel_err(mode) ==
    /\ Len(channels) + InFlight("NewChannelIdRequest") < MaxChannels
    /\ IF ctrl = "running"
       THEN /\ Len(queue) < MaxQueue
            /\ queue' = Append(queue, NewChannelIdRequest(mode))
            /\ UNCHANGED failed
       ELSE /\ failed' = Some([op |-> "new_channel_id", res |-> "Err"])
            /\ UNCHANGED queue
    /\ UNCHANGED <<junction_vars, ctrl, controller_vars, channels, next_uid, blocked, broken,
                   log_vars, handle_vars>>

\* Junction::new_channel_id, called by send_channel, recv_channel and
\* bidir_channel: post a NewChannelIdRequest; the unwrap panics when the
\* receiver of the queue is gone.
NewChannel(mode) ==
    /\ Len(channels) + InFlight("NewChannelIdRequest") < MaxChannels
    /\ IF ctrl = "running"
       THEN /\ Len(queue) < MaxQueue
            /\ queue' = Append(queue, NewChannelIdRequest(mode))
            /\ UNCHANGED failed
       ELSE /\ failed' = Some([op |-> "new_channel_id", res |-> "Panic"])
            /\ UNCHANGED queue
    /\ UNCHANGED <<junction_vars, ctrl, controller_vars, channels, next_uid, blocked, broken,
                   log_vars, handle_vars>>

\* then_do of a partial pattern: post an AddJoinPatternRequest; the unwrap
\* panics when the receiver of the queue is gone.
ThenDo(chans) ==
    /\ latest_join_pattern_id + InFlight("AddJoinPatternRequest") < MaxPatterns
    /\ chans \in BuiltLists
    /\ IF ctrl = "running"
       THEN /\ Len(queue) < MaxQueue
            /\ queue' = Append(queue,
                   AddJoinPatternRequest(JoinPattern(ModeOf(chans[Len(chans)]), chans)))
            /\ UNCHANGED failed
       ELSE /\ failed' = Some([op |-> "then_do", res |-> "Panic"])
            /\ UNCHANGED queue
    /\ UNCHANGED <<junction_vars, ctrl, controller_vars, channels, next_uid, blocked, broken,
                   log_vars, handle_vars>>

\* SendChannel::send, RecvChannel::recv and BidirChannel::send_recv: envelope
\* the value (for Recv and Bidir with a new reply endpoint), post a Message
\* packet; recv and send_recv then block on the reply endpoint.  A post to a
\* stopped coordinator returns a failure.
ChannelOp(k) ==
    /\ k \in Created
    /\ next_uid < MaxMsgs
    /\ IF ctrl = "running"
       THEN /\ Len(queue) < MaxQueue
            /\ queue' = Append(queue,
                   MessagePacket(k, Message(next_uid + 1, EnvelopeOf(ModeOf(k)))))
            /\ next_uid' = next_uid + 1
            /\ blocked' = IF ModeOf(k) = "Send" THEN blocked
                          ELSE blocked \cup {next_uid + 1}
            /\ UNCHANGED failed
       ELSE /\ failed' = Some([op |-> ModeOf(k), res |-> "Err"])
            /\ UNCHANGED <<queue, next_uid, blocked>>
    /\ UNCHANGED <<junction_vars, ctrl, controller_vars, channels, broken, log_vars, handle_vars>>

(* --------------------------- coordinator ------------------------------- *)

SeqRange(q) == {q[i] : i \in DOMAIN q}

\* The envelopes the control thread owns: those of the inventory and those
\* of the Message packets still queued.
OwnedMessages ==
    UNION {SeqRange(messages[k]) : k \in DOMAIN messages}
      \cup {queue[i].msg : i \in {j \in DOMAIN queue : queue[j].type = "Message"}}

\* The reply endpoints in those envelopes.
OwnedEndpoints == {m.uid : m \in {o \in OwnedMessages : o.ty # "T"}}

\* Controller::handle_join_pattern_firing selecting and firing again while a
\* pattern of the list is alive.
RECURSIVE handle_join_pattern_firing_loop(_, _, _, _, _, _)
handle_join_pattern_firing_loop(patterns, last_fired, index, bag, counter, channel_id) ==
    LET jp_ids  == relevant_join_patterns(index, channel_id)
        alive   == alive_join_patterns(patterns, bag, jp_ids)
        to_fire == select_to_fire(last_fired, alive)
    IN  IF is_none(to_fire)
        THEN [ok |-> TRUE, bag |-> bag, last_fired |-> last_fired, firings |-> <<>>]
        ELSE LET r    == fire_join_pattern(patterns, bag, to_fire[1])
                 rest == handle_join_pattern_firing_loop(patterns,
                             reset_last_fired(last_fired, to_fire[1], counter),
                             index, r.bag, counter, channel_id)
             IN  [rest EXCEPT !.firings =
                     <<[jp |-> to_fire[1], args |-> r.args, at |-> counter]>> \o @]

\* Controller::handle_join_pattern_firing on the inventory the message was
\* added to: the inventory and the last-fired table it leaves, and the
\* firings it made.  ok is FALSE when fire_join_pattern panicked.
handle_join_pattern_firing(patterns, last_fired, index, bag, counter, channel_id) ==
    LET jp_ids  == relevant_join_patterns(index, channel_id)
        alive   == alive_join_patterns(patterns, bag, jp_ids)
        to_fire == select_to_fire(last_fired, alive)
    IN  IF is_none(to_fire)
        THEN [ok |-> TRUE, bag |-> bag, last_fired |-> last_fired, firings |-> <<>>]
        ELSE LET r == fire_join_pattern(patterns, bag, to_fire[1])
             IN  IF r.ok
                 THEN [ok |-> TRUE, bag |-> r.bag,
                       last_fired |-> reset_last_fired(last_fired, to_fire[1], counter),
                       firings |-> <<[jp |-> to_fire[1], args |-> r.args,
                                      at |-> counter]>>]
                 ELSE [ok |-> FALSE, bag |-> r.bag, last_fired |-> last_fired,
                       firings |-> <<>>]

\* Controller::handle_message with a selection that examines the candidates
\* in either order of the index list, as a sort free to reorder equal
\* elements from one run to the next would.
HandleMessage_any_tie ==
    /\ ctrl = "running"
    /\ queue # <<>>
    /\ Head(queue).type = "Message"
    /\ \E reversed \in BOOLEAN :
        LET channel_id == Head(queue).channel_id
            msg        == Head(queue).msg
            added      == BagAdd(messages, channel_id, msg)
            counter    == message_counter + 1
            jp_ids     == join_pattern_index[channel_id]
            examined   == IF reversed
                          THEN [i \in DOMAIN jp_ids |-> jp_ids[Len(jp_ids) + 1 - i]]
                          ELSE jp_ids
            r          == handle_join_pattern_firing(join_patterns,
                              join_pattern_last_fired,
                              [join_pattern_index EXCEPT ![channel_id] = examined],
                              added, counter, channel_id)
        IN  /\ message_counter' = counter
            /\ ingested' = Append(ingested, [ch |-> channel_id, msg |-> msg])
            /\ messages' = r.bag
            /\ join_pattern_last_fired' = r.last_fired
            /\ fired' = fired \o r.firings
            /\ running' = running \cup ((Len(fired) + 1) .. (Len(fired) + Len(r.firings)))
            /\ IF r.ok
               THEN /\ queue' = Tail(queue)
                    /\ UNCHANGED <<ctrl, blocked, broken>>
               ELSE /\ ctrl' = "panicked"
                    /\ queue' = <<>>
                    /\ blocked' = blocked \ OwnedEndpoints
                    /\ broken' = broken \cup (blocked \cap OwnedEndpoints)
    /\ UNCHANGED <<junction_vars, latest_channel_id, latest_join_pattern_id, join_patterns,
                   join_pattern_index, channels, next_uid, replies,
                   handle_vars, failed>>

\* Controller::handle_message counting the message only when a pattern
\* fires on it.
HandleMessage_count_firings ==
    /\ ctrl = "running"
    /\ queue # <<>>
    /\ Head(queue).type = "Message"
    /\ LET channel_id == Head(queue).channel_id
           msg        == Head(queue).msg
           added      == BagAdd(messages, channel_id, msg)
           r          == handle_join_pattern_firing(join_patterns,
                             join_pattern_last_fired, join_pattern_index, added,
                             message_counter + 1, channel_id)
       IN  /\ message_counter' = message_counter + Len(r.firings)
           /\ ingested' = Append(ingested, [ch |-> channel_id, msg |-> msg])
           /\ messages' = r.bag
           /\ join_pattern_last_fired' = r.last_fired
           /\ fired' = fired \o r.firings
           /\ running' = running \cup ((Len(fired) + 1) .. (Len(fired) + Len(r.firings)))
           /\ IF r.ok
              THEN /\ queue' = Tail(queue)
                   /\ UNCHANGED <<ctrl, blocked, broken>>
              ELSE /\ ctrl' = "panicked"
                   /\ queue' = <<>>
                   /\ blocked' = blocked \ OwnedEndpoints
                   /\ broken' = broken \cup (blocked \cap OwnedEndpoints)
    /\ UNCHANGED <<junction_vars, latest_channel_id, latest_join_pattern_id, join_patterns,
                   join_pattern_index, channels, next_uid, replies,
                   handle_vars, failed>>

\* Controller::handle_message taking a message only when the worker threads
\* of all earlier firings have ended.
HandleMessage_joins_workers ==
    /\ running = {}
    /\ ctrl = "running"
    /\ queue # <<>>
    /\ Head(queue).type = "Message"
    /\ LET channel_id == Head(queue).channel_id
           msg        == Head(queue).msg
           added      == BagAdd(messages, channel_id, msg)
           counter    == message_counter + 1
           r          == handle_join_pattern_firing(join_patterns,
                             join_pattern_last_fired, join_pattern_index, added,
                             counter, channel_id)
       IN  /\ message_counter' = counter
           /\ ingested' = Append(ingested, [ch |-> channel_id, msg |-> msg])
           /\ messages' = r.bag
           /\ join_pattern_last_fired' = r.last_fired
           /\ fired' = fired \o r.firings
           /\ running' = running \cup ((Len(fired) + 1) .. (Len(fired) + Len(r.firings)))
           /\ IF r.ok
              THEN /\ queue' = Tail(queue)
                   /\ UNCHANGED <<ctrl, blocked, broken>>
              ELSE /\ ctrl' = "panicked"
                   /\ queue' = <<>>
                   /\ blocked' = blocked \ OwnedEndpoints
                   /\ broken' = broken \cup (blocked \cap OwnedEndpoints)
    /\ UNCHANGED <<junction_vars, latest_channel_id, latest_join_pattern_id, join_patterns,
                   join_pattern_index, channels, next_uid, replies,
                   handle_vars, failed>>

\* Controller::handle_message: add the message, count it, handle the firing.
\* Each firing starts a worker thread.  A panic ends the control thread,
\* which drops the Controller and the Receiver.
HandleMessage ==
    /\ ctrl = "running"
    /\ queue # <<>>
    /\ Head(queue).type = "Message"
    /\ LET channel_id == Head(queue).channel_id
           msg        == Head(queue).msg
           added      == BagAdd(messages, channel_id, msg)
           counter    == message_counter + 1
           r          == handle_join_pattern_firing(join_patterns,
                             join_pattern_last_fired, join_pattern_index, added,
                             counter, channel_id)
       IN  /\ message_counter' = counter
           /\ ingested' = Append(ingested, [ch |-> channel_id, msg |-> msg])
           /\ messages' = r.bag
           /\ join_pattern_last_fired' = r.last_fired
           /\ fired' = fired \o r.firings
           /\ running' = running \cup ((Len(fired) + 1) .. (Len(fired) + Len(r.firings)))
           /\ IF r.ok
              THEN /\ queue' = Tail(queue)
                   /\ UNCHANGED <<ctrl, blocked, broken>>
              ELSE /\ ctrl' = "panicked"
                   /\ queue' = <<>>
                   /\ blocked' = blocked \ OwnedEndpoints
                   /\ broken' = broken \cup (blocked \cap OwnedEndpoints)
    /\ UNCHANGED <<junction_vars, latest_channel_id, latest_join_pattern_id, join_patterns,
                   join_pattern_index, channels, next_uid, replies,
                   handle_vars, failed>>

\* Controller::new_channel_id returning the latest id without incrementing.
new_channel_id_no_increment(latest) ==
    [ch_id |-> latest, latest_channel_id |-> latest]

\* Controller::new_channel_id: the id returned and the latest id left.
new_channel_id(latest) ==
    [ch_id |-> latest, latest_channel_id |-> latest + 1]

\* Controller::new_join_pattern_id returning the latest id without moving
\* on to the next.
new_join_pattern_id_no_increment(latest) ==
    [jp_id |-> latest, latest_join_pattern_id |-> latest]

\* Controller::new_join_pattern_id: the id returned and the latest id left.
new_join_pattern_id(latest) ==
    [jp_id |-> latest, latest_join_pattern_id |-> latest + 1]

\* Controller::handle_new_channel_id_request with Controller::new_channel_id;
\* the requesting Junction makes the channel of the id it receives.
HandleNewChannelIdRequest ==
    /\ ctrl = "running"
    /\ queue # <<>>
    /\ Head(queue).type = "NewChannelIdRequest"
    /\ LET r == new_channel_id(latest_channel_id)
       IN  /\ latest_channel_id' = r.latest_channel_id
           /\ channels' = Append(channels, [id |-> r.ch_id, mode |-> Head(queue).mode])
    /\ queue' = Tail(queue)
    /\ UNCHANGED <<junction_vars, ctrl, latest_join_pattern_id, message_counter, messages,
                   join_patterns, join_pattern_last_fired, join_pattern_index,
                   next_uid, blocked, broken, log_vars, handle_vars, failed>>

\* Controller::handle_add_join_pattern_request with new_join_pattern_id,
\* initialize_last_fired and insert_join_pattern
HandleAddJoinPatternRequest ==
    /\ ctrl = "running"
    /\ queue # <<>>
    /\ Head(queue).type = "AddJoinPatternRequest"
    /\ LET jp_id == new_join_pattern_id(latest_join_pattern_id).jp_id
           join_pattern == Head(queue).join_pattern
       IN  /\ latest_join_pattern_id' =
                  new_join_pattern_id(latest_join_pattern_id).latest_join_pattern_id
           /\ join_pattern_last_fired' =
                  initialize_last_fired(join_pattern_last_fired, jp_id)
           /\ join_pattern_index' =
                  index_channels(join_pattern_index, join_pattern.channels, jp_id)
           /\ join_patterns' = Append(join_patterns, join_pattern)
    /\ queue' = Tail(queue)
    /\ UNCHANGED <<junction_vars, ctrl, latest_channel_id, message_counter, messages, channels,
                   next_uid, blocked, broken, log_vars, handle_vars, failed>>

\* Controller::handle_packets ending the loop as soon as a ShutDownRequest is
\* anywhere in the queue, ahead of the packets queued before it.
HandleShutDownRequest_anywhere ==
    /\ ctrl = "running"
    /\ \E i \in DOMAIN queue : queue[i].type = "ShutDownRequest"
    /\ ctrl' = "stopped"
    /\ queue' = <<>>
    /\ blocked' = blocked \ OwnedEndpoints
    /\ broken' = broken \cup (blocked \cap OwnedEndpoints)
    /\ failed' = IF InFlight("NewChannelIdRequest") > 0
                 THEN Some([op |-> "send_channel", res |-> "Panic"])
                 ELSE failed
    /\ UNCHANGED <<junction_vars, controller_vars, channels, next_uid, log_vars, handle_vars>>

\* The ShutDownRequest arm of Controller::handle_packets ending the loop
\* while the inventory and the queued packets stay alive (not dropped).
HandleShutDownRequest_leak ==
    /\ ctrl = "running"
    /\ queue # <<>>
    /\ Head(queue).type = "ShutDownRequest"
    /\ ctrl' = "stopped"
    /\ queue' = <<>>
    /\ UNCHANGED <<junction_vars, controller_vars, channels, next_uid, blocked, broken, failed,
                   log_vars, handle_vars>>

\* The ShutDownRequest arm of Controller::handle_packets: the loop breaks,
\* the control thread ends and drops the Controller and the Receiver with
\* the packets still queued.  A reply endpoint dropped with them fails the
\* recv of its consumer; a dropped NewChannelIdRequest fails the recv in
\* Junction::new_channel_id, whose result send_channel, recv_channel and
\* bidir_channel unwrap.  (messages keeps the inventory as it was when the
\* thread ended.)
HandleShutDownRequest ==
    /\ ctrl = "running"
    /\ queue # <<>>
    /\ Head(queue).type = "ShutDownRequest"
    /\ ctrl' = "stopped"
    /\ queue' = <<>>
    /\ blocked' = blocked \ OwnedEndpoints
    /\ broken' = broken \cup (blocked \cap OwnedEndpoints)
    /\ failed' = IF InFlight("NewChannelIdRequest") > 0
                 THEN Some([op |-> "send_channel", res |-> "Panic"])
                 ELSE failed
    /\ UNCHANGED <<junction_vars, controller_vars, channels, next_uid, log_vars, handle_vars>>

\* A worker thread spawned by JoinPattern::fire runs the transformed
\* function of the pattern on the messages it was given; for a Recv or Bidir
\* pattern it sends the return value through the reply endpoint, which
\* releases the consumer blocked on it.
HandlerRun(i) ==
    /\ i \in running
    /\ running' = running \ {i}
    /\ LET f    == fired[i]
           kind == join_patterns[f.jp + 1].kind
       IN  IF ~downcasts_ok(kind, f.args)
           THEN /\ failed' = Some([op |-> "handler", res |-> "Panic"])
                /\ UNCHANGED <<replies, blocked>>
           ELSE IF kind = "Send"
           THEN UNCHANGED <<replies, blocked, failed>>
           ELSE IF return_sender(f.args) \in blocked
           THEN /\ replies' = Append(replies,
                       [ep |-> return_sender(f.args),
                        val |-> HandlerReturn(f.jp, f.args), firing |-> i])
                /\ blocked' = blocked \ {return_sender(f.args)}
                /\ UNCHANGED failed
           ELSE /\ failed' = Some([op |-> "handler", res |-> "Panic"])
                /\ UNCHANGED <<replies, blocked>>
    /\ UNCHANGED <<junction_vars, queue, ctrl, controller_vars, channels, next_uid, broken,
                   ingested, fired, handle_vars>>

(* ------------------------- ControllerHandle ---------------------------- *)

\* ControllerHandle::stop returning quietly when the ShutDownRequest cannot
\* be sent or the join handle was taken before.
StopCall_quiet ==
    /\ stop_pc = "idle"
    /\ stops_returned < MaxStops
    /\ IF ctrl # "running"
       THEN /\ stops_returned' = stops_returned + 1
            /\ UNCHANGED <<queue, control_thread_handle, stop_pc>>
       ELSE /\ Len(queue) < MaxQueue
            /\ queue' = Append(queue, ShutDownRequest)
            /\ IF control_thread_handle = "None"
               THEN /\ stops_returned' = stops_returned + 1
                    /\ UNCHANGED <<control_thread_handle, stop_pc>>
               ELSE /\ stop_pc' = "joining"
                    /\ control_thread_handle' = "None"
                    /\ UNCHANGED stops_returned
    /\ UNCHANGED <<junction_vars, ctrl, controller_vars, channels, next_uid, blocked, broken,
                   log_vars, failed, probe>>

\* ControllerHandle::stop up to the join: send the ShutDownRequest (the
\* unwrap panics when the receiver of the queue is gone), take the join
\* handle (the unwrap panics when it was taken before).
StopCall ==
    /\ stop_pc = "idle"
    /\ stops_returned < MaxStops
    /\ IF ctrl # "running"
       THEN /\ stop_pc' = "panicked"
            /\ UNCHANGED <<queue, control_thread_handle>>
       ELSE /\ Len(queue) < MaxQueue
            /\ queue' = Append(queue, ShutDownRequest)
            /\ IF control_thread_handle = "None"
               THEN /\ stop_pc' = "panicked"
                    /\ UNCHANGED control_thread_handle
               ELSE /\ stop_pc' = "joining"
                    /\ control_thread_handle' = "None"
    /\ UNCHANGED <<junction_vars, ctrl, controller_vars, channels, next_uid, blocked, broken,
                   log_vars, stops_returned, failed, probe>>

\* ControllerHandle::stop, the join of the control thread: returns when the
\* thread has ended (the unwrap panics when the thread panicked).
StopJoin ==
    /\ stop_pc = "joining"
    /\ ctrl # "running"
    /\ IF ctrl = "stopped"
       THEN /\ stop_pc' = "idle"
            /\ stops_returned' = stops_returned + 1
       ELSE /\ stop_pc' = "panicked"
            /\ UNCHANGED stops_returned
    /\ UNCHANGED <<junction_vars, queue, ctrl, controller_vars, channels, next_uid, blocked,
                   broken, log_vars, control_thread_handle, failed, probe>>

(* --------------------------- specification ----------------------------- *)

\* Junction::new: Controller::new, the queue, the control thread started.
Init ==
    /\ queue = <<>>
    /\ ctrl = "running"
    /\ latest_channel_id = 0
    /\ latest_join_pattern_id = 0
    /\ message_counter = 0
    /\ messages = BagNew
    /\ join_patterns = <<>>
    /\ join_pattern_last_fired = <<>>
    /\ join_pattern_index = IndexNew
    /\ channels = <<>>
    /\ next_uid = 0
    /\ blocked = {}
    /\ broken = {}
    /\ ingested = <<>>
    /\ fired = <<>>
    /\ running = {}
    /\ replies = <<>>
    /\ control_thread_handle = "Some"
    /\ stop_pc = "idle"
    /\ stops_returned = 0
    /\ failed = None
    /\ controller_handle = "Some"
    /\ junction = "alive"
    /\ taken = <<>>
    /\ probe = None

Next ==
    \/ \E mode \in Modes : NewChannel(mode)
    \/ \E chans \in BuiltLists : ThenDo(chans)
    \/ \E k \in ChannelIds : ChannelOp(k)
    \/ HandleMessage
    \/ HandleNewChannelIdRequest
    \/ HandleAddJoinPatternRequest
    \/ HandleShutDownRequest
    \/ \E i \in running : HandlerRun(i)
    \/ StopCall
    \/ StopJoin

Spec == Init /\ [][Next]_vars

\* The control thread: the loop of Controller::handle_packets takes the next
\* packet whenever the queue holds one.
Coordinator ==
    \/ HandleMessage
    \/ HandleNewChannelIdRequest
    \/ HandleAddJoinPatternRequest
    \/ HandleShutDownRequest

\* The control thread is running and the next packet is a Message.
MessageAtHead == ctrl = "running" /\ queue # <<>> /\ Head(queue).type = "Message"

\* The threads of the runtime are scheduled: the control thread processes a
\* queued packet, a spawned handler thread runs, a join returns once the
\* control thread has ended.  The clients are free to post or not.
\* The packet at the head of the queue decides the arm of the match, so the
\* fairness of the control thread is that of each arm.  HandleMessage is
\* enabled exactly when MessageAtHead holds and always changes the state
\* (the message counter), so its conjunct is WF_vars(HandleMessage) written
\* out.
FairSpec ==
    /\ Spec
    /\ ([]<>(~MessageAtHead) \/ []<><<HandleMessage>>_vars)
    /\ WF_vars(HandleNewChannelIdRequest)
    /\ WF_vars(HandleAddJoinPatternRequest)
    /\ WF_vars(HandleShutDownRequest)
    /\ WF_vars(\E i \in running : HandlerRun(i))
    /\ WF_vars(StopJoin)

(* ------------------- the Junction and its handle ----------------------- *)

\* Junction::controller_handle: take() the handle out of the Junction.
ControllerHandleCall ==
    /\ junction = "alive"
    /\ Len(taken) < MaxTakes
    /\ taken' = Append(taken, controller_handle)
    /\ controller_handle' = "None"
    /\ UNCHANGED <<queue, ctrl, controller_vars, channels, next_uid, blocked,
                   broken, log_vars, handle_vars, failed, junction>>

\* Drop for Junction keeping the handle check out: stop nothing.
DropJunction_no_stop ==
    /\ junction = "alive"
    /\ junction' = "dropped"
    /\ UNCHANGED <<queue, ctrl, controller_vars, channels, next_uid, blocked,
                   broken, log_vars, handle_vars, failed, controller_handle, taken>>

\* Drop for Junction: when the Junction still holds the handle, take it and
\* call stop() on it, which posts the ShutDownRequest and joins the control
\* thread; otherwise nothing is done.
DropJunction ==
    /\ junction = "alive"
    /\ IF controller_handle = "Some"
       THEN /\ controller_handle' = "None"
            /\ IF ctrl # "running"
               THEN /\ junction' = "panicked"
                    /\ UNCHANGED <<queue, control_thread_handle>>
               ELSE /\ Len(queue) < MaxQueue
                    /\ queue' = Append(queue, ShutDownRequest)
                    /\ control_thread_handle' = "None"
                    /\ junction' = "dropping"
       ELSE /\ junction' = "dropped"
            /\ UNCHANGED <<queue, controller_handle, control_thread_handle>>
    /\ UNCHANGED <<ctrl, controller_vars, channels, next_uid, blocked, broken,
                   log_vars, stop_pc, stops_returned, failed, taken, probe>>

\* The join in the stop() called by Drop for Junction returns when the
\* control thread has ended.
DropJoin ==
    /\ junction = "dropping"
    /\ ctrl # "running"
    /\ junction' = IF ctrl = "stopped" THEN "dropped" ELSE "panicked"
    /\ UNCHANGED <<queue, ctrl, controller_vars, channels, next_uid, blocked,
                   broken, log_vars, handle_vars, failed, controller_handle, taken>>

\* The client holds the ControllerHandle it extracted.
Extracted == \E i \in DOMAIN taken : taken[i] = "Some"

\* The Junction with its clients: channels are made on a live Junction, the
\* handle is stopped by the client that extracted it.
NextJunction ==
    \/ \E mode \in Modes : junction = "alive" /\ NewChannel(mode)
    \/ \E chans \in BuiltLists : ThenDo(chans)
    \/ \E k \in ChannelIds : ChannelOp(k)
    \/ HandleMessage
    \/ HandleNewChannelIdRequest
    \/ HandleAddJoinPatternRequest
    \/ HandleShutDownRequest
    \/ \E i \in running : HandlerRun(i)
    \/ Extracted /\ StopCall
    \/ StopJoin
    \/ ControllerHandleCall
    \/ DropJunction
    \/ DropJoin

JunctionSpec == Init /\ [][NextJunction]_vars

(* ---------------------- the pattern builder ---------------------------- *)

JunctionIds == 0 .. (MaxJunctions - 1)

\* The builder thread of a component specification: the Junction it builds
\* on, the partial pattern it holds (st = "partial") with the channels
\* accumulated, the channel it was last given, and the log of the channel
\* lists it completed with then_do.
Builder(junction_id, st, chans, arg, built) ==
    [junction_id |-> junction_id, st |-> st, chans |-> chans, arg |-> arg,
     built |-> built]

\* The channels a client can hand to a builder step: those made on the
\* builder's Junction and channels of the other Junctions.
ChannelsOffered(junction_id) ==
    {[junction_id |-> j, id |-> k, mode |-> m] :
        j \in JunctionIds, k \in ChannelIds, m \in Modes}
      \ {c \in [junction_id : {junction_id}, id : ChannelIds, mode : Modes] :
            c.id \notin Created \/ c.mode # ModeOf(c.id)}

\* Junction::when, when_recv, when_bidir: start a partial pattern with the
\* channel if it carries the id of this Junction, panic otherwise.
BuilderWhen(ch) ==
    /\ is_some(probe)
    /\ probe[1].st = "idle"
    /\ probe' = Some(IF ch.junction_id = probe[1].junction_id
                      THEN [probe[1] EXCEPT !.st = "partial", !.chans = <<ch>>,
                                            !.arg = Some(ch)]
                      ELSE [probe[1] EXCEPT !.st = "panicked", !.arg = Some(ch)])
    /\ UNCHANGED <<queue, ctrl, controller_vars, channels, next_uid, blocked,
                   broken, log_vars, control_thread_handle, stop_pc,
                   stops_returned, failed, junction_vars>>

\* and, and_recv, and_bidir extending the partial pattern without comparing
\* the junction ids.
BuilderAnd_unchecked(ch) ==
    /\ is_some(probe)
    /\ probe[1].st = "partial"
    /\ Len(probe[1].chans) < 3
    /\ \A i \in DOMAIN probe[1].chans : probe[1].chans[i].mode = "Send"
    /\ probe' = Some([probe[1] EXCEPT !.chans = Append(@, ch), !.arg = Some(ch)])
    /\ UNCHANGED <<queue, ctrl, controller_vars, channels, next_uid, blocked,
                   broken, log_vars, control_thread_handle, stop_pc,
                   stops_returned, failed, junction_vars>>

\* and, and_recv, and_bidir offered by every partial pattern of fewer than
\* three channels, whatever the channels it holds.
BuilderAnd_any(ch) ==
    /\ is_some(probe)
    /\ probe[1].st = "partial"
    /\ Len(probe[1].chans) < 3
    /\ probe' = Some(IF ch.junction_id = probe[1].junction_id
                      THEN [probe[1] EXCEPT !.chans = Append(@, ch), !.arg = Some(ch)]
                      ELSE [probe[1] EXCEPT !.st = "panicked", !.arg = Some(ch)])
    /\ UNCHANGED <<queue, ctrl, controller_vars, channels, next_uid, blocked,
                   broken, log_vars, control_thread_handle, stop_pc,
                   stops_returned, failed, junction_vars>>

\* SendPartialPattern::and, and_recv, and_bidir of the unary and the binary
\* partial patterns: only a partial pattern of one or two Send channels has
\* them; extend it with the channel if it carries the junction id of the
\* partial pattern, panic otherwise.
BuilderAnd(ch) ==
    /\ is_some(probe)
    /\ probe[1].st = "partial"
    /\ Len(probe[1].chans) < 3
    /\ \A i \in DOMAIN probe[1].chans : probe[1].chans[i].mode = "Send"
    /\ probe' = Some(IF ch.junction_id = probe[1].junction_id
                      THEN [probe[1] EXCEPT !.chans = Append(@, ch), !.arg = Some(ch)]
                      ELSE [probe[1] EXCEPT !.st = "panicked", !.arg = Some(ch)])
    /\ UNCHANGED <<queue, ctrl, controller_vars, channels, next_uid, blocked,
                   broken, log_vars, control_thread_handle, stop_pc,
                   stops_returned, failed, junction_vars>>

\* then_do of a partial pattern: the Join Pattern of the ids of the channels
\* held, of the variant of the last channel, posted to the Junction.
BuilderThenDo ==
    /\ is_some(probe)
    /\ probe[1].st = "partial"
    /\ ctrl = "running"
    /\ latest_join_pattern_id + InFlight("AddJoinPatternRequest") < MaxPatterns
    /\ Len(queue) < MaxQueue
    /\ LET chans == probe[1].chans
       IN  /\ queue' = Append(queue, AddJoinPatternRequest(
                   JoinPattern(chans[Len(chans)].mode,
                               [i \in DOMAIN chans |-> chans[i].id])))
           /\ probe' = Some([probe[1] EXCEPT !.st = "idle", !.chans = <<>>,
                                             !.arg = None,
                                             !.built = Append(@, chans)])
    /\ UNCHANGED <<ctrl, controller_vars, channels, next_uid, blocked,
                   broken, log_vars, control_thread_handle, stop_pc,
                   stops_returned, failed, junction_vars>>

\* A Junction on which MaxChannels channels of any modes were made, and a
\* client about to build patterns on it.
InitBuilder ==
    \E modes \in [1 .. MaxChannels -> Modes], j \in JunctionIds :
        /\ queue = <<>>
        /\ ctrl = "running"
        /\ latest_channel_id = MaxChannels
        /\ latest_join_pattern_id = 0
        /\ message_counter = 0
        /\ messages = BagNew
        /\ join_patterns = <<>>
        /\ join_pattern_last_fired = <<>>
        /\ join_pattern_index = IndexNew
        /\ channels = [i \in DOMAIN modes |-> [id |-> i - 1, mode |-> modes[i]]]
        /\ next_uid = 0
        /\ blocked = {}
        /\ broken = {}
        /\ ingested = <<>>
        /\ fired = <<>>
        /\ running = {}
        /\ replies = <<>>
        /\ control_thread_handle = "Some"
        /\ stop_pc = "idle"
        /\ stops_returned = 0
        /\ failed = None
        /\ controller_handle = "Some"
        /\ junction = "alive"
        /\ taken = <<>>
        /\ probe = Some(Builder(j, "idle", <<>>, None, <<>>))

NextBuilder ==
    \/ \E ch \in ChannelsOffered(probe[1].junction_id) : BuilderWhen(ch)
    \/ \E ch \in ChannelsOffered(probe[1].junction_id) : BuilderAnd(ch)
    \/ BuilderThenDo
    \/ HandleAddJoinPatternRequest

SpecBuilder == InitBuilder /\ [][NextBuilder]_vars

(* ---------------- the ids of the Junctions of a program ----------------- *)

\* Threads of the program creating Junctions, and Junctions each creates.
MaxThreads == 3
MaxNews == 2

Threads == 1 .. MaxThreads

\* The program-wide state: the static LATEST_JUNCTION_ID, the ids of the
\* Junctions each thread has created so far, and, per thread, the value it
\* has loaded from the counter and not yet stored back (None between calls).
JunctionIdState(latest, ids, loaded) ==
    [LATEST_JUNCTION_ID |-> latest, ids |-> ids, loaded |-> loaded]

\* JunctionId::new with a plain load of the counter followed by a store.
JunctionIdNew_load_store(t) ==
    /\ is_some(probe)
    /\ IF is_none(probe[1].loaded[t])
       THEN /\ Len(probe[1].ids[t]) < MaxNews
            /\ probe' = Some([probe[1] EXCEPT
                   !.loaded[t] = Some(probe[1].LATEST_JUNCTION_ID)])
       ELSE /\ probe' = Some([probe[1] EXCEPT
                   !.LATEST_JUNCTION_ID = probe[1].loaded[t][1] + 1,
                   !.ids[t] = Append(@, probe[1].loaded[t][1]),
                   !.loaded[t] = None])
    /\ UNCHANGED <<queue, ctrl, controller_vars, channels, next_uid, blocked,
                   broken, log_vars, control_thread_handle, stop_pc,
                   stops_returned, failed, junction_vars>>

\* JunctionId::new, called by Junction::new in thread t:
\* JunctionId(LATEST_JUNCTION_ID.fetch_add(1, Ordering::Relaxed)), one atomic
\* read-modify-write returning the previous value.
JunctionIdNew(t) ==
    /\ is_some(probe)
    /\ is_none(probe[1].loaded[t])
    /\ Len(probe[1].ids[t]) < MaxNews
    /\ probe' = Some([probe[1] EXCEPT
           !.LATEST_JUNCTION_ID = probe[1].LATEST_JUNCTION_ID + 1,
           !.ids[t] = Append(@, probe[1].LATEST_JUNCTION_ID)])
    /\ UNCHANGED <<queue, ctrl, controller_vars, channels, next_uid, blocked,
                   broken, log_vars, control_thread_handle, stop_pc,
                   stops_returned, failed, junction_vars>>

\* The program start: LATEST_JUNCTION_ID = AtomicUsize::new(0), no Junction
\* created.
InitJunctionId ==
    /\ queue = <<>>
    /\ ctrl = "running"
    /\ latest_channel_id = 0
    /\ latest_join_pattern_id = 0
    /\ message_counter = 0
    /\ messages = BagNew
    /\ join_patterns = <<>>
    /\ join_pattern_last_fired = <<>>
    /\ join_pattern_index = IndexNew
    /\ channels = <<>>
    /\ next_uid = 0
    /\ blocked = {}
    /\ broken = {}
    /\ ingested = <<>>
    /\ fired = <<>>
    /\ running = {}
    /\ replies = <<>>
    /\ control_thread_handle = "Some"
    /\ stop_pc = "idle"
    /\ stops_returned = 0
    /\ failed = None
    /\ controller_handle = "Some"
    /\ junction = "alive"
    /\ taken = <<>>
    /\ probe = Some(JunctionIdState(0, [t \in Threads |-> <<>>],
                                      [t \in Threads |-> None]))

NextJunctionId == \E t \in Threads : JunctionIdNew(t)

SpecJunctionId == InitJunctionId /\ [][NextJunctionId]_vars

(* ------------------------ the storage cell ----------------------------- *)

\* The channels of the cell in the order they are made: get (Recv), put
\* (Send) and val (Send), which carries the value of the cell.
CellGet == 0
CellPut == 1
CellVal == 2

CellChannels ==
    <<[id |-> CellGet, mode |-> "Recv"], [id |-> CellPut, mode |-> "Send"],
      [id |-> CellVal, mode |-> "Send"]>>

\* The values the cell is initialised with and the values put into it.
InitialValues == {1729, 1}
PutValues == {42, 22}

\* Calls of get.recv() the client makes.
MaxGets == 2

\* The program: the values it uses, the step the client thread is at, the
\* reply endpoint it is blocked on, the values its recv calls returned, the
\* value each message carries (by uid), and the firings whose function has
\* sent its message and not yet returned.
Cell(initial, new, pc, waiting, results, value, sent) ==
    [initial |-> initial, new |-> new, pc |-> pc, waiting |-> waiting,
     results |-> results, value |-> value, sent |-> sent]

\* The function of the put-val pattern sending the old value.
put_val_handler_old(new, old) == old

\* cell.when(&put).and(&val).then_do(|new, _old| put_val.send(new)): the value
\* sent on val.
put_val_handler(new, old) == new

\* cell.when(&val).and_recv(&get).then_do(|v| { get_val.send(v.clone()); v }):
\* the value sent on val and the value returned.
val_get_handler(v) == [send |-> v, ret |-> v]

\* The posting of a Message packet by a channel of the cell.
CellPost(ch, ty) ==
    /\ queue' = Append(queue, MessagePacket(ch, Message(next_uid + 1, ty)))
    /\ next_uid' = next_uid + 1

\* The client thread (main): the two registrations, val.send(initial),
\* put.send(new), then get.recv() MaxGets times, each blocking until the
\* reply endpoint yields the value.
CellClient ==
    /\ is_some(probe)
    /\ LET c == probe[1]
       IN  IF is_some(c.waiting)
           THEN /\ c.waiting[1] \notin blocked
                /\ \E i \in DOMAIN replies :
                       /\ replies[i].ep = c.waiting[1]
                       /\ probe' = Some([c EXCEPT !.waiting = None, !.pc = @ + 1,
                                           !.results = Append(@, replies[i].val)])
                /\ UNCHANGED <<queue, next_uid, blocked>>
           ELSE IF c.pc = 1
           THEN /\ queue' = Append(queue, AddJoinPatternRequest(
                                  JoinPattern("Send", <<CellPut, CellVal>>)))
                /\ probe' = Some([c EXCEPT !.pc = 2])
                /\ UNCHANGED <<next_uid, blocked>>
           ELSE IF c.pc = 2
           THEN /\ queue' = Append(queue, AddJoinPatternRequest(
                                  JoinPattern("Recv", <<CellVal, CellGet>>)))
                /\ probe' = Some([c EXCEPT !.pc = 3])
                /\ UNCHANGED <<next_uid, blocked>>
           ELSE IF c.pc = 3
           THEN /\ CellPost(CellVal, "T")
                /\ probe' = Some([c EXCEPT !.pc = 4, !.value = Append(@, c.initial)])
                /\ UNCHANGED blocked
           ELSE IF c.pc = 4
           THEN /\ CellPost(CellPut, "T")
                /\ probe' = Some([c EXCEPT !.pc = 5, !.value = Append(@, c.new)])
                /\ UNCHANGED blocked
           ELSE /\ c.pc < 5 + MaxGets
                /\ CellPost(CellGet, "Sender")
                /\ blocked' = blocked \cup {next_uid + 1}
                /\ probe' = Some([c EXCEPT !.waiting = Some(next_uid + 1),
                                           !.value = Append(@, None)])
    /\ UNCHANGED <<ctrl, controller_vars, channels, broken, log_vars,
                   control_thread_handle, stop_pc, stops_returned, failed,
                   junction_vars>>

\* The worker thread of firing i running the function of its pattern: the
\* put-val function sends on val and returns; the val-get function sends on
\* val, then returns the value, which the transformed function sends
\* through the reply endpoint of the get message.
CellHandler(i) ==
    /\ is_some(probe)
    /\ i \in running
    /\ LET c    == probe[1]
           args == fired[i].args
       IN  IF join_patterns[fired[i].jp + 1].channels = <<CellPut, CellVal>>
           THEN /\ CellPost(CellVal, "T")
                /\ probe' = Some([c EXCEPT !.value = Append(@,
                       put_val_handler(c.value[args[1].uid], c.value[args[2].uid]))])
                /\ running' = running \ {i}
                /\ UNCHANGED <<blocked, replies>>
           ELSE IF i \notin c.sent
           THEN /\ CellPost(CellVal, "T")
                /\ probe' = Some([c EXCEPT
                       !.value = Append(@, val_get_handler(c.value[args[1].uid]).send),
                       !.sent = @ \cup {i}])
                /\ UNCHANGED <<blocked, replies, running>>
           ELSE /\ replies' = Append(replies,
                       [ep |-> return_sender(args),
                        val |-> val_get_handler(c.value[args[1].uid]).ret,
                        firing |-> i])
                /\ blocked' = blocked \ {return_sender(args)}
                /\ running' = running \ {i}
                /\ probe' = Some([c EXCEPT !.sent = @ \ {i}])
                /\ UNCHANGED <<queue, next_uid>>
    /\ UNCHANGED <<ctrl, controller_vars, channels, broken, ingested, fired,
                   control_thread_handle, stop_pc, stops_returned, failed,
                   junction_vars>>

\* The cell after its channels were made, the client about to register the
\* patterns.
InitCell ==
    \E initial \in InitialValues, new \in PutValues :
        /\ queue = <<>>
        /\ ctrl = "running"
        /\ latest_channel_id = Len(CellChannels)
        /\ latest_join_pattern_id = 0
        /\ message_counter = 0
        /\ messages = [k \in {CellGet, CellPut, CellVal} |-> <<>>]
        /\ join_patterns = <<>>
        /\ join_pattern_last_fired = <<>>
        /\ join_pattern_index = [k \in {CellGet, CellPut, CellVal} |-> <<>>]
        /\ channels = CellChannels
        /\ next_uid = 0
        /\ blocked = {}
        /\ broken = {}
        /\ ingested = <<>>
        /\ fired = <<>>
        /\ running = {}
        /\ replies = <<>>
        /\ control_thread_handle = "Some"
        /\ stop_pc = "idle"
        /\ stops_returned = 0
        /\ failed = None
        /\ controller_handle = "Some"
        /\ junction = "alive"
        /\ taken = <<>>
        /\ probe = Some(Cell(initial, new, 1, None, <<>>, <<>>, {}))

NextCell ==
    \/ CellClient
    \/ HandleAddJoinPatternRequest
    \/ HandleMessage
    \/ \E i \in running : CellHandler(i)

\* The threads of the program are scheduled: the client, the control thread
\* and the worker threads.
SpecCell ==
    /\ InitCell /\ [][NextCell]_vars
    /\ WF_vars(CellClient)
    /\ WF_vars(HandleAddJoinPatternRequest)
    /\ WF_vars(HandleMessage)
    /\ WF_vars(\E i \in running : CellHandler(i))

(* ----------------------------- the mutex ------------------------------- *)

\* The channels of the mutex in the order they are made: acquire (Recv),
\* release (Send) and lock (Send).
MutexAcquire == 0
MutexRelease == 1
MutexLock == 2

MutexChannels ==
    <<[id |-> MutexAcquire, mode |-> "Recv"], [id |-> MutexRelease, mode |-> "Send"],
      [id |-> MutexLock, mode |-> "Send"]>>

\* The two threads using the mutex, and the times each acquires it.
MutexThreads == {"jh_1", "jh_2"}
MaxRounds == 1

\* The program: the step new_mutex is at, and per thread the step it is at
\* ("idle", "waiting" in acquire.recv(), "holding" after it returned), the
\* reply endpoint it waits on and the times it has released the mutex.
Mutex(main, pc, waiting, rounds) ==
    [main |-> main, pc |-> pc, waiting |-> waiting, rounds |-> rounds]

\* The function of the lock-acquire pattern sending a new lock message.
acquire_handler_relock(lock) == <<MutexLock>>

\* mutex.when(&lock).and_recv(&acquire).then_do(|_| {}): the channels the
\* function sends a message on (none).
acquire_handler(lock) == <<>>

\* mutex.when(&release).then_do(move |_| { let _ = lock_clone.send(()); })
release_handler(release) == <<MutexLock>>

\* new_mutex: the two registrations, then lock.send(()).
MutexNew ==
    /\ is_some(probe)
    /\ LET m == probe[1]
       IN  /\ m.main <= 3
           /\ probe' = Some([m EXCEPT !.main = @ + 1])
           /\ IF m.main = 1
              THEN /\ queue' = Append(queue, AddJoinPatternRequest(
                                     JoinPattern("Recv", <<MutexLock, MutexAcquire>>)))
                   /\ UNCHANGED next_uid
              ELSE IF m.main = 2
              THEN /\ queue' = Append(queue, AddJoinPatternRequest(
                                     JoinPattern("Send", <<MutexRelease>>)))
                   /\ UNCHANGED next_uid
              ELSE /\ queue' = Append(queue,
                          MessagePacket(MutexLock, Message(next_uid + 1, "T")))
                   /\ next_uid' = next_uid + 1
    /\ UNCHANGED <<ctrl, controller_vars, channels, blocked, broken, log_vars,
                   control_thread_handle, stop_pc, stops_returned, failed,
                   junction_vars>>

\* A thread of main, spawned after new_mutex returned: acquire.recv(),
\* blocking until the reply endpoint yields, then release.send(()).
MutexThread(t) ==
    /\ is_some(probe)
    /\ LET m == probe[1]
       IN  /\ m.main > 3
           /\ IF m.pc[t] = "idle"
              THEN /\ m.rounds[t] < MaxRounds
                   /\ queue' = Append(queue,
                          MessagePacket(MutexAcquire, Message(next_uid + 1, "Sender")))
                   /\ next_uid' = next_uid + 1
                   /\ blocked' = blocked \cup {next_uid + 1}
                   /\ probe' = Some([m EXCEPT !.pc[t] = "waiting",
                                              !.waiting[t] = Some(next_uid + 1)])
              ELSE IF m.pc[t] = "waiting"
              THEN /\ m.waiting[t][1] \notin blocked
                   /\ probe' = Some([m EXCEPT !.pc[t] = "holding",
                                              !.waiting[t] = None])
                   /\ UNCHANGED <<queue, next_uid, blocked>>
              ELSE /\ queue' = Append(queue,
                          MessagePacket(MutexRelease, Message(next_uid + 1, "T")))
                   /\ next_uid' = next_uid + 1
                   /\ probe' = Some([m EXCEPT !.pc[t] = "idle", !.rounds[t] = @ + 1])
                   /\ UNCHANGED blocked
    /\ UNCHANGED <<ctrl, controller_vars, channels, broken, log_vars,
                   control_thread_handle, stop_pc, stops_returned, failed,
                   junction_vars>>

\* The worker thread of firing i running the function of its pattern, which
\* sends its messages; for the lock-acquire pattern the transformed function
\* then sends the unit it returned through the reply endpoint of the acquire
\* message.
MutexHandler(i) ==
    /\ is_some(probe)
    /\ i \in running
    /\ running' = running \ {i}
    /\ LET args  == fired[i].args
           recv  == join_patterns[fired[i].jp + 1].kind = "Recv"
           sends == IF recv THEN acquire_handler(args[1])
                            ELSE release_handler(args[1])
       IN  /\ queue' = queue \o [j \in DOMAIN sends |->
                           MessagePacket(sends[j], Message(next_uid + j, "T"))]
           /\ next_uid' = next_uid + Len(sends)
           /\ IF recv
              THEN /\ replies' = Append(replies,
                          [ep |-> return_sender(args), val |-> <<>>, firing |-> i])
                   /\ blocked' = blocked \ {return_sender(args)}
              ELSE UNCHANGED <<replies, blocked>>
    /\ UNCHANGED <<ctrl, controller_vars, channels, broken, ingested, fired,
                   control_thread_handle, stop_pc, stops_returned, failed,
                   junction_vars, probe>>

\* The mutex after its channels were made.
InitMutex ==
    /\ queue = <<>>
    /\ ctrl = "running"
    /\ latest_channel_id = Len(MutexChannels)
    /\ latest_join_pattern_id = 0
    /\ message_counter = 0
    /\ messages = [k \in {MutexAcquire, MutexRelease, MutexLock} |-> <<>>]
    /\ join_patterns = <<>>
    /\ join_pattern_last_fired = <<>>
    /\ join_pattern_index = [k \in {MutexAcquire, MutexRelease, MutexLock} |-> <<>>]
    /\ channels = MutexChannels
    /\ next_uid = 0
    /\ blocked = {}
    /\ broken = {}
    /\ ingested = <<>>
    /\ fired = <<>>
    /\ running = {}
    /\ replies = <<>>
    /\ control_thread_handle = "Some"
    /\ stop_pc = "idle"
    /\ stops_returned = 0
    /\ failed = None
    /\ controller_handle = "Some"
    /\ junction = "alive"
    /\ taken = <<>>
    /\ probe = Some(Mutex(1, [t \in MutexThreads |-> "idle"],
                            [t \in MutexThreads |-> None],
                            [t \in MutexThreads |-> 0]))

NextMutex ==
    \/ MutexNew
    \/ \E t \in MutexThreads : MutexThread(t)
    \/ HandleAddJoinPatternRequest
    \/ HandleMessage
    \/ \E i \in running : MutexHandler(i)

\* The threads of the program are scheduled: main, its two threads, the
\* control thread and the worker threads.
SpecMutex ==
    /\ InitMutex /\ [][NextMutex]_vars
    /\ WF_vars(MutexNew)
    /\ \A t \in MutexThreads : WF_vars(MutexThread(t))
    /\ WF_vars(HandleAddJoinPatternRequest)
    /\ WF_vars(HandleMessage)
    /\ WF_vars(\E i \in running : MutexHandler(i))

(* ------------------ a pattern and a superset pattern ------------------- *)

\* Two Send channels x and y, pattern A on x and pattern B on x and y.
StarveX == 0
StarveY == 1

\* Messages the producers send on x and y.
MaxArrivals == 6

\* A producer thread: x.send(v) or y.send(v).
ProducerSend(k) ==
    /\ ctrl = "running"
    /\ next_uid < MaxArrivals
    /\ Len(queue) < MaxQueue
    /\ queue' = Append(queue, MessagePacket(k, Message(next_uid + 1, "T")))
    /\ next_uid' = next_uid + 1
    /\ UNCHANGED <<ctrl, controller_vars, channels, blocked, broken, log_vars,
                   handle_vars, failed, junction_vars>>

\* The Junction after the two channels were made and the two patterns
\* registered, in either order, B listing its channels in either order.
InitStarve ==
    \E first, second \in {<<StarveX>>, <<StarveX, StarveY>>, <<StarveY, StarveX>>} :
        /\ Len(first) # Len(second)
        /\ queue = <<>>
        /\ ctrl = "running"
        /\ latest_channel_id = 2
        /\ latest_join_pattern_id = 2
        /\ message_counter = 0
        /\ messages = [k \in {StarveX, StarveY} |-> <<>>]
        /\ join_patterns = <<JoinPattern("Send", first), JoinPattern("Send", second)>>
        /\ join_pattern_last_fired =
               initialize_last_fired(initialize_last_fired(<<>>, 0), 1)
        /\ join_pattern_index =
               index_channels(index_channels([k \in {StarveX, StarveY} |-> <<>>],
                                             first, 0), second, 1)
        /\ channels = <<[id |-> StarveX, mode |-> "Send"],
                        [id |-> StarveY, mode |-> "Send"]>>
        /\ next_uid = 0
        /\ blocked = {}
        /\ broken = {}
        /\ ingested = <<>>
        /\ fired = <<>>
        /\ running = {}
        /\ replies = <<>>
        /\ control_thread_handle = "Some"
        /\ stop_pc = "idle"
        /\ stops_returned = 0
        /\ failed = None
        /\ controller_handle = "Some"
        /\ junction = "alive"
        /\ taken = <<>>
        /\ probe = None

NextStarve ==
    \/ \E k \in {StarveX, StarveY} : ProducerSend(k)
    \/ HandleMessage
    \/ \E i \in running : HandlerRun(i)

SpecStarve == InitStarve /\ [][NextStarve]_vars

(* ------------------------ a binary Send pattern ------------------------ *)

\* Two Send channels a and b and the one pattern on a and b.
PairA == 0
PairB == 1

\* The Junction after the two channels were made and the pattern on a and b
\* registered, listing a first.
InitPair ==
    /\ queue = <<>>
    /\ ctrl = "running"
    /\ latest_channel_id = 2
    /\ latest_join_pattern_id = 1
    /\ message_counter = 0
    /\ messages = [k \in {PairA, PairB} |-> <<>>]
    /\ join_patterns = <<JoinPattern("Send", <<PairA, PairB>>)>>
    /\ join_pattern_last_fired = initialize_last_fired(<<>>, 0)
    /\ join_pattern_index =
           index_channels([k \in {PairA, PairB} |-> <<>>], <<PairA, PairB>>, 0)
    /\ channels = <<[id |-> PairA, mode |-> "Send"], [id |-> PairB, mode |-> "Send"]>>
    /\ next_uid = 0
    /\ blocked = {}
    /\ broken = {}
    /\ ingested = <<>>
    /\ fired = <<>>
    /\ running = {}
    /\ replies = <<>>
    /\ control_thread_handle = "Some"
    /\ stop_pc = "idle"
    /\ stops_returned = 0
    /\ failed = None
    /\ controller_handle = "Some"
    /\ junction = "alive"
    /\ taken = <<>>
    /\ probe = None

NextPair ==
    \/ \E k \in {PairA, PairB} : ProducerSend(k)
    \/ HandleMessage
    \/ \E i \in running : HandlerRun(i)

SpecPair == InitPair /\ [][NextPair]_vars

(* --------------------------- the rendezvous ---------------------------- *)

\* The channels of the rendezvous in the order they are made: token (Send),
\* entry (Recv), accept_n (Bidir), wait (Recv) and all_gone (Send).
RdvToken == 0
RdvEntry == 1
RdvAcceptN == 2
RdvWait == 3
RdvAllGone == 4

RdvChannels ==
    <<[id |-> RdvToken, mode |-> "Send"], [id |-> RdvEntry, mode |-> "Recv"],
      [id |-> RdvAcceptN, mode |-> "Bidir"], [id |-> RdvWait, mode |-> "Recv"],
      [id |-> RdvAllGone, mode |-> "Send"]>>

RdvIds == {RdvToken, RdvEntry, RdvAcceptN, RdvWait, RdvAllGone}

\* The patterns of the rendezvous in the order they are registered.
RdvPatterns ==
    <<JoinPattern("Recv", <<RdvToken, RdvEntry>>),
      JoinPattern("Bidir", <<RdvAcceptN>>),
      JoinPattern("Recv", <<RdvAllGone, RdvWait>>)>>

\* The largest number of entries waited for and the largest number of
\* client threads calling entry.recv().
MaxEntries == 2
MaxClients == 2

\* The program: the number main passes to accept_n.send_recv, the step main
\* is at ("start", "waiting", "returned") and the reply endpoint it waits
\* on, per client thread the step it is at ("start", "waiting", "done") and
\* its reply endpoint, the value each message carries (by uid), the firings
\* whose function has sent its message, and per firing of the accept_n
\* pattern the reply endpoint its function waits on in wait.recv().
Rendezvous(n, main, main_ep, clients, value, sent, hwait) ==
    [n |-> n, main |-> main, main_ep |-> main_ep, clients |-> clients,
     value |-> value, sent |-> sent, hwait |-> hwait]

\* The function of the token-entry pattern announcing all_gone one entry
\* early.
token_entry_handler_early(n) ==
    IF n <= 2 THEN [ch |-> RdvAllGone, val |-> 0] ELSE [ch |-> RdvToken, val |-> n - 1]

\* j.when(&token).and_recv(&entry).then_do(move |n| ...): the channel the
\* function sends on and the value sent (0 stands for the unit value).
token_entry_handler(n) ==
    IF n = 1 THEN [ch |-> RdvAllGone, val |-> 0] ELSE [ch |-> RdvToken, val |-> n - 1]

\* j.when_bidir(&accept_n).then_do(move |n| ...): the value sent on token
\* before wait.recv().
accept_n_handler(n) == n

\* The posting of a Message packet by a channel of the rendezvous.
RdvPost(ch, ty) ==
    /\ queue' = Append(queue, MessagePacket(ch, Message(next_uid + 1, ty)))
    /\ next_uid' = next_uid + 1

\* main: accept_n.send_recv(num_entries), blocking until the reply endpoint
\* yields.
RdvMain ==
    /\ is_some(probe)
    /\ LET r == probe[1]
       IN  IF r.main = "start"
           THEN /\ RdvPost(RdvAcceptN, "TSender")
                /\ blocked' = blocked \cup {next_uid + 1}
                /\ probe' = Some([r EXCEPT !.main = "waiting", !.main_ep = next_uid + 1,
                                           !.value = Append(@, r.n)])
           ELSE /\ r.main = "waiting"
                /\ r.main_ep \notin blocked
                /\ \E i \in DOMAIN replies : replies[i].ep = r.main_ep
                /\ probe' = Some([r EXCEPT !.main = "returned"])
                /\ UNCHANGED <<queue, next_uid, blocked>>
    /\ UNCHANGED <<ctrl, controller_vars, channels, broken, log_vars,
                   control_thread_handle, stop_pc, stops_returned, failed,
                   junction_vars>>

\* A client thread: entry_clone.recv(), blocking until the reply endpoint
\* yields.
RdvClient(c) ==
    /\ is_some(probe)
    /\ c \in DOMAIN probe[1].clients
    /\ LET r == probe[1]
       IN  IF r.clients[c].pc = "start"
           THEN /\ RdvPost(RdvEntry, "Sender")
                /\ blocked' = blocked \cup {next_uid + 1}
                /\ probe' = Some([r EXCEPT
                       !.clients[c] = [pc |-> "waiting", ep |-> next_uid + 1],
                       !.value = Append(@, 0)])
           ELSE /\ r.clients[c].pc = "waiting"
                /\ r.clients[c].ep \notin blocked
                /\ \E i \in DOMAIN replies : replies[i].ep = r.clients[c].ep
                /\ probe' = Some([r EXCEPT !.clients[c].pc = "done"])
                /\ UNCHANGED <<queue, next_uid, blocked>>
    /\ UNCHANGED <<ctrl, controller_vars, channels, broken, log_vars,
                   control_thread_handle, stop_pc, stops_returned, failed,
                   junction_vars>>

\* The worker thread of firing i running the function of its pattern.  The
\* token-entry function sends all_gone or the next token and returns; the
\* accept_n function sends the token, posts its request on wait, blocks until
\* the reply endpoint yields and returns; the all_gone-wait function returns
\* at once.  The transformed function sends the return value through the
\* reply endpoint of the last message.
RdvHandler(i) ==
    /\ is_some(probe)
    /\ i \in running
    /\ LET r     == probe[1]
           args  == fired[i].args
           chans == join_patterns[fired[i].jp + 1].channels
           reply == /\ replies' = Append(replies,
                           [ep |-> return_sender(args), val |-> 0, firing |-> i])
                    /\ blocked' = blocked \ {return_sender(args)}
                    /\ running' = running \ {i}
                    /\ UNCHANGED <<queue, next_uid>>
       IN  IF chans = <<RdvToken, RdvEntry>>
           THEN IF i \notin r.sent
                THEN LET out == token_entry_handler(r.value[args[1].uid])
                     IN  /\ RdvPost(out.ch, "T")
                         /\ probe' = Some([r EXCEPT !.value = Append(@, out.val),
                                                    !.sent = @ \cup {i}])
                         /\ UNCHANGED <<blocked, replies, running>>
                ELSE /\ reply
                     /\ probe' = Some([r EXCEPT !.sent = @ \ {i}])
           ELSE IF chans = <<RdvAcceptN>>
           THEN IF i \notin r.sent
                THEN /\ RdvPost(RdvToken, "T")
                     /\ probe' = Some([r EXCEPT
                            !.value = Append(@, accept_n_handler(r.value[args[1].uid])),
                            !.sent = @ \cup {i}])
                     /\ UNCHANGED <<blocked, replies, running>>
                ELSE IF \A h \in r.hwait : h[1] # i
                THEN /\ RdvPost(RdvWait, "Sender")
                     /\ blocked' = blocked \cup {next_uid + 1}
                     /\ probe' = Some([r EXCEPT !.value = Append(@, 0),
                                                !.hwait = @ \cup {<<i, next_uid + 1>>}])
                     /\ UNCHANGED <<replies, running>>
                ELSE /\ \E h \in r.hwait :
                            /\ h[1] = i
                            /\ h[2] \notin blocked
                            /\ \E j \in DOMAIN replies : replies[j].ep = h[2]
                     /\ reply
                     /\ probe' = Some([r EXCEPT !.sent = @ \ {i}])
           ELSE /\ reply
                /\ UNCHANGED probe
    /\ UNCHANGED <<ctrl, controller_vars, channels, broken, ingested, fired,
                   control_thread_handle, stop_pc, stops_returned, failed,
                   junction_vars>>

\* The program when rendezvous() has returned and the control thread has
\* processed the three registrations it posted: the five channels made, the
\* patterns registered in the order of the then_do calls, main about to
\* spawn the clients and call accept_n.send_recv.
InitRendezvous ==
    \E n \in 1 .. MaxEntries, m \in 1 .. MaxClients :
        /\ queue = <<>>
        /\ ctrl = "running"
        /\ latest_channel_id = Len(RdvChannels)
        /\ latest_join_pattern_id = Len(RdvPatterns)
        /\ message_counter = 0
        /\ messages = [k \in RdvIds |-> <<>>]
        /\ join_patterns = RdvPatterns
        /\ join_pattern_last_fired = [i \in DOMAIN RdvPatterns |-> None]
        /\ join_pattern_index =
               [k \in RdvIds |->
                   IF k \in {RdvToken, RdvEntry} THEN <<0>>
                   ELSE IF k = RdvAcceptN THEN <<1>> ELSE <<2>>]
        /\ channels = RdvChannels
        /\ next_uid = 0
        /\ blocked = {}
        /\ broken = {}
        /\ ingested = <<>>
        /\ fired = <<>>
        /\ running = {}
        /\ replies = <<>>
        /\ control_thread_handle = "Some"
        /\ stop_pc = "idle"
        /\ stops_returned = 0
        /\ failed = None
        /\ controller_handle = "None"
        /\ junction = "dropped"
        /\ taken = <<"Some">>
        /\ probe = Some(Rendezvous(n, "start", 0,
                        [c \in 1 .. m |-> [pc |-> "start", ep |-> 0]], <<>>, {}, {}))

NextRendezvous ==
    \/ RdvMain
    \/ \E c \in 1 .. MaxClients : RdvClient(c)
    \/ HandleMessage
    \/ \E i \in running : RdvHandler(i)

\* The threads of the program are scheduled: main, the clients, the control
\* thread and the worker threads.
SpecRendezvous ==
    /\ InitRendezvous /\ [][NextRendezvous]_vars
    /\ WF_vars(RdvMain)
    /\ WF_vars(\E c \in 1 .. MaxClients : RdvClient(c))
    /\ ([]<>(~MessageAtHead) \/ []<><<HandleMessage>>_vars)
    /\ WF_vars(\E i \in running : RdvHandler(i))

(* ----------------------------- the Counter ----------------------------- *)

\* The width in bits of the unsigned integer type Uint of a digit.
UintBits == 2

\* Uint::min_value() and Uint::max_value()
UINT_MIN == 0
UINT_MAX == 2 ^ UintBits - 1

\* The values of the carry variable.
NO_CARRY == 0
CARRY == 1

\* Increments applied to one Counter.
MaxCount == 2 ^ (2 * UintBits) + 2

\* Counter::default: one digit, the lowest value.  digits[1] is the least
\* significant digit.
CounterDefault == <<UINT_MIN>>

\* The loop of Counter::increment from digit i on with the carry so far:
\* the digits and the carry it leaves.
RECURSIVE increment_loop(_, _, _)
increment_loop(digits, i, carry) ==
    IF i > Len(digits)
    THEN [digits |-> digits, carry |-> carry]
    ELSE IF digits[i] < UINT_MAX
    THEN [digits |-> [digits EXCEPT ![i] = (@ + carry) % (2 ^ UintBits)],
          carry |-> NO_CARRY]
    ELSE increment_loop([digits EXCEPT ![i] = UINT_MIN], i + 1, CARRY)

\* Counter::increment
increment(digits) ==
    LET r == increment_loop(digits, 1, CARRY)
    IN  IF r.carry = CARRY THEN Append(r.digits, r.carry) ELSE r.digits

\* Ord for Counter with the first differing digit deciding (the least
\* significant one).
cmp_first_differing(a, b) ==
    IF Len(a) < Len(b) THEN "Less"
    ELSE IF Len(a) > Len(b) THEN "Greater"
    ELSE LET differing == {i \in DOMAIN a : a[i] # b[i]}
         IN  IF differing = {} THEN "Equal"
             ELSE LET first == CHOOSE i \in differing : \A j \in differing : i <= j
                  IN  IF a[first] < b[first] THEN "Less" ELSE "Greater"

\* Ord for Counter: cmp.  With as many digits on both sides, the last
\* comparison of a pair of digits that is not Equal decides.
cmp(a, b) ==
    IF Len(a) < Len(b) THEN "Less"
    ELSE IF Len(a) > Len(b) THEN "Greater"
    ELSE LET differing == {i \in DOMAIN a : a[i] # b[i]}
         IN  IF differing = {} THEN "Equal"
             ELSE LET last == CHOOSE i \in differing : \A j \in differing : j <= i
                  IN  IF a[last] < b[last] THEN "Less" ELSE "Greater"

\* The counter of a Controller and what is done with it: the digits of
\* message_counter, the clones of it kept as last-fired values of two
\* patterns, the increments made before each of the three was last written,
\* the result of the latest comparison of the two clones, and the result of
\* comparing message_counter after its latest increment with its value
\* before.
Counters(counter, fst, snd, n, ord, after) ==
    [counter |-> counter, fst |-> fst, snd |-> snd, n |-> n, ord |-> ord,
     after |-> after]

\* handle_message: self.message_counter.increment()
CounterIncrement ==
    /\ is_some(probe)
    /\ LET c == probe[1]
       IN  /\ c.n[1] < MaxCount
           /\ probe' = Some([c EXCEPT !.counter = increment(@),
                                      !.n[1] = @ + 1,
                                      !.after = Some(cmp(increment(c.counter), c.counter))])
    /\ UNCHANGED <<queue, ctrl, controller_vars, channels, next_uid, blocked, broken,
                   log_vars, control_thread_handle, stop_pc, stops_returned, failed,
                   junction_vars>>

\* reset_last_fired: Some(self.message_counter.clone()) stored for a pattern.
CounterClone ==
    /\ is_some(probe)
    /\ LET c == probe[1]
       IN  \/ probe' = Some([c EXCEPT !.fst = c.counter, !.n[2] = c.n[1], !.ord = None])
           \/ probe' = Some([c EXCEPT !.snd = c.counter, !.n[3] = c.n[1], !.ord = None])
    /\ UNCHANGED <<queue, ctrl, controller_vars, channels, next_uid, blocked, broken,
                   log_vars, control_thread_handle, stop_pc, stops_returned, failed,
                   junction_vars>>

\* compare_last_fired on two present values: c1.cmp(c2)
CounterCmp ==
    /\ is_some(probe)
    /\ LET c == probe[1]
       IN  probe' = Some([c EXCEPT !.ord = Some(cmp(c.fst, c.snd))])
    /\ UNCHANGED <<queue, ctrl, controller_vars, channels, next_uid, blocked, broken,
                   log_vars, control_thread_handle, stop_pc, stops_returned, failed,
                   junction_vars>>

\* Controller::new: the counter at its default; no last-fired value was
\* written yet (the two clones stand at the default).
InitCounter ==
    /\ queue = <<>>
    /\ ctrl = "running"
    /\ latest_channel_id = 0
    /\ latest_join_pattern_id = 0
    /\ message_counter = 0
    /\ messages = BagNew
    /\ join_patterns = <<>>
    /\ join_pattern_last_fired = <<>>
    /\ join_pattern_index = IndexNew
    /\ channels = <<>>
    /\ next_uid = 0
    /\ blocked = {}
    /\ broken = {}
    /\ ingested = <<>>
    /\ fired = <<>>
    /\ running = {}
    /\ replies = <<>>
    /\ control_thread_handle = "Some"
    /\ stop_pc = "idle"
    /\ stops_returned = 0
    /\ failed = None
    /\ controller_handle = "Some"
    /\ junction = "alive"
    /\ taken = <<>>
    /\ probe = Some(Counters(CounterDefault, CounterDefault, CounterDefault,
                             <<0, 0, 0>>, None, None))

NextCounter ==
    \/ CounterIncrement
    \/ CounterClone
    \/ CounterCmp

SpecCounter == InitCounter /\ [][NextCounter]_vars

(* ------------------------ the Bag on its own --------------------------- *)

\* The keys used, the adds made and the retrieves tried in a run.
BagKeys == {0, 1}
MaxBagAdds == 3
MaxBagRetrieves == 3

\* Bag::new as the HashMap itself: no key is present.
Bag_new == <<>>

\* Bag::add on the HashMap: push_back on the queue of a present key, a new
\* queue with the item for an absent key.
Bag_add(items, key, item) ==
    IF key \in DOMAIN items
    THEN [items EXCEPT ![key] = Append(@, item)]
    ELSE [k \in DOMAIN items \cup {key} |-> IF k = key THEN <<item>> ELSE items[k]]

\* Bag::retrieve on the HashMap: None for an absent key, else pop_front on
\* its queue.  The value returned and the HashMap left.
Bag_retrieve(items, key) ==
    IF key \notin DOMAIN items THEN [out |-> None, items |-> items]
    ELSE IF items[key] = <<>> THEN [out |-> None, items |-> items]
    ELSE [out |-> Some(Head(items[key])), items |-> [items EXCEPT ![key] = Tail(@)]]

\* Bag::contains_items answering whether the key is present.
Bag_contains_items_key(items, key) == key \in DOMAIN items

\* Bag::contains_items
Bag_contains_items(items, key) ==
    IF key \in DOMAIN items THEN items[key] # <<>> ELSE FALSE

\* Bag::count_items on the HashMap
Bag_count_items(items, key) ==
    IF key \in DOMAIN items THEN Len(items[key]) ELSE 0

\* A Bag in use: its HashMap, the operation applied last with its key and
\* what it returned, per key the adds and the retrieves that returned a
\* value, the retrieves tried, and what contains_items and count_items
\* answer for each key.
BagUse(items, op, key, out, adds, taken_out, tried, contains, counts) ==
    [items |-> items, op |-> op, key |-> key, out |-> out, adds |-> adds,
     taken_out |-> taken_out, tried |-> tried, contains |-> contains,
     counts |-> counts]

\* bag.add(key, item) followed by contains_items and count_items for every
\* key.  The items are numbered in the order they are added.
BagAddCall(key) ==
    /\ is_some(probe)
    /\ LET b     == probe[1]
           total == b.adds[0] + b.adds[1]
           items == Bag_add(b.items, key, total + 1)
       IN  /\ total < MaxBagAdds
           /\ probe' = Some(BagUse(items, "add", key, None,
                          [b.adds EXCEPT ![key] = @ + 1], b.taken_out, b.tried,
                          [k \in BagKeys |-> Bag_contains_items(items, k)],
                          [k \in BagKeys |-> Bag_count_items(items, k)]))
    /\ UNCHANGED <<queue, ctrl, controller_vars, channels, next_uid, blocked, broken,
                   log_vars, control_thread_handle, stop_pc, stops_returned, failed,
                   junction_vars>>

\* bag.retrieve(&key) followed by contains_items and count_items for every
\* key.
BagRetrieveCall(key) ==
    /\ is_some(probe)
    /\ LET b == probe[1]
           r == Bag_retrieve(b.items, key)
       IN  /\ b.tried < MaxBagRetrieves
           /\ probe' = Some(BagUse(r.items, "retrieve", key, r.out, b.adds,
                          [b.taken_out EXCEPT ![key] = IF is_some(r.out) THEN @ + 1 ELSE @],
                          b.tried + 1,
                          [k \in BagKeys |-> Bag_contains_items(r.items, k)],
                          [k \in BagKeys |-> Bag_count_items(r.items, k)]))
    /\ UNCHANGED <<queue, ctrl, controller_vars, channels, next_uid, blocked, broken,
                   log_vars, control_thread_handle, stop_pc, stops_returned, failed,
                   junction_vars>>

\* A new Bag.
InitBag ==
    /\ queue = <<>>
    /\ ctrl = "running"
    /\ latest_channel_id = 0
    /\ latest_join_pattern_id = 0
    /\ message_counter = 0
    /\ messages = BagNew
    /\ join_patterns = <<>>
    /\ join_pattern_last_fired = <<>>
    /\ join_pattern_index = IndexNew
    /\ channels = <<>>
    /\ next_uid = 0
    /\ blocked = {}
    /\ broken = {}
    /\ ingested = <<>>
    /\ fired = <<>>
    /\ running = {}
    /\ replies = <<>>
    /\ control_thread_handle = "Some"
    /\ stop_pc = "idle"
    /\ stops_returned = 0
    /\ failed = None
    /\ controller_handle = "Some"
    /\ junction = "alive"
    /\ taken = <<>>
    /\ probe = Some(BagUse(Bag_new, "new", 0, None, [k \in BagKeys |-> 0],
                           [k \in BagKeys |-> 0], 0,
                           [k \in BagKeys |-> Bag_contains_items(Bag_new, k)],
                           [k \in BagKeys |-> Bag_count_items(Bag_new, k)]))

NextBag ==
    \/ \E key \in BagKeys : BagAddCall(key)
    \/ \E key \in BagKeys : BagRetrieveCall(key)

SpecBag == InitBag /\ [][NextBag]_vars

(* ------------------- the InvertedIndex on its own ---------------------- *)

\* The keys used, the values inserted in a run, and the most values one
\* insert_multiple is given.
IndexKeys == {0, 1}
MaxIndexValues == 6
MaxIndexBatch == 2

\* InvertedIndex::new as the HashMap itself: no key is present.
Index_new == <<>>

\* InvertedIndex::insert_single on the HashMap: push_back on the list of a
\* present key, a new list with the value for an absent key.
Index_insert_single(table, key, value) ==
    IF key \in DOMAIN table
    THEN [table EXCEPT ![key] = Append(@, value)]
    ELSE [k \in DOMAIN table \cup {key} |-> IF k = key THEN <<value>> ELSE table[k]]

\* InvertedIndex::insert_multiple storing the collected values as the list
\* of the key, present or not.
Index_insert_multiple_replace(table, key, values) ==
    [k \in DOMAIN table \cup {key} |-> IF k = key THEN values ELSE table[k]]

\* InvertedIndex::insert_multiple on the HashMap: push_back of each value in
\* order on the list of a present key, the collected values as the list of
\* an absent key.
Index_insert_multiple(table, key, values) ==
    IF key \in DOMAIN table
    THEN [table EXCEPT ![key] = @ \o values]
    ELSE [k \in DOMAIN table \cup {key} |-> IF k = key THEN values ELSE table[k]]

\* InvertedIndex::peek_first
Index_peek_first(table, key) ==
    IF key \notin DOMAIN table THEN None
    ELSE IF table[key] = <<>> THEN None
    ELSE Some(Head(table[key]))

\* InvertedIndex::peek_all on the HashMap
Index_peek_all(table, key) ==
    IF key \in DOMAIN table THEN Some(table[key]) ELSE None

\* An InvertedIndex in use: its HashMap, the key of the insert applied last,
\* every pair of key and value inserted so far in the order of insertion,
\* the keys given to an insert, and what peek_first and peek_all answer for
\* each key.
IndexUse(table, key, inserted, keys, first, all) ==
    [table |-> table, key |-> key, inserted |-> inserted, keys |-> keys,
     first |-> first, all |-> all]

\* index.insert_single(key, value) followed by peek_first and peek_all for
\* every key.  The values are numbered in the order they are inserted.
IndexInsertSingle(key) ==
    /\ is_some(probe)
    /\ LET x     == probe[1]
           value == Len(x.inserted) + 1
           table == Index_insert_single(x.table, key, value)
       IN  /\ value <= MaxIndexValues
           /\ probe' = Some(IndexUse(table, key, Append(x.inserted, <<key, value>>),
                          x.keys \cup {key},
                          [k \in IndexKeys |-> Index_peek_first(table, k)],
                          [k \in IndexKeys |-> Index_peek_all(table, k)]))
    /\ UNCHANGED <<queue, ctrl, controller_vars, channels, next_uid, blocked, broken,
                   log_vars, control_thread_handle, stop_pc, stops_returned, failed,
                   junction_vars>>

\* index.insert_multiple(key, values) followed by peek_first and peek_all
\* for every key.
IndexInsertMultiple(key, count) ==
    /\ is_some(probe)
    /\ LET x      == probe[1]
           values == [i \in 1 .. count |-> Len(x.inserted) + i]
           table  == Index_insert_multiple(x.table, key, values)
       IN  /\ Len(x.inserted) + count <= MaxIndexValues
           /\ probe' = Some(IndexUse(table, key,
                          x.inserted \o [i \in 1 .. count |-> <<key, values[i]>>],
                          x.keys \cup {key},
                          [k \in IndexKeys |-> Index_peek_first(table, k)],
                          [k \in IndexKeys |-> Index_peek_all(table, k)]))
    /\ UNCHANGED <<queue, ctrl, controller_vars, channels, next_uid, blocked, broken,
                   log_vars, control_thread_handle, stop_pc, stops_returned, failed,
                   junction_vars>>

\* A new InvertedIndex.
InitIndex ==
    /\ queue = <<>>
    /\ ctrl = "running"
    /\ latest_channel_id = 0
    /\ latest_join_pattern_id = 0
    /\ message_counter = 0
    /\ messages = BagNew
    /\ join_patterns = <<>>
    /\ join_pattern_last_fired = <<>>
    /\ join_pattern_index = IndexNew
    /\ channels = <<>>
    /\ next_uid = 0
    /\ blocked = {}
    /\ broken = {}
    /\ ingested = <<>>
    /\ fired = <<>>
    /\ running = {}
    /\ replies = <<>>
    /\ control_thread_handle = "Some"
    /\ stop_pc = "idle"
    /\ stops_returned = 0
    /\ failed = None
    /\ controller_handle = "Some"
    /\ junction = "alive"
    /\ taken = <<>>
    /\ probe = Some(IndexUse(Index_new, 0, <<>>, {},
                             [k \in IndexKeys |-> Index_peek_first(Index_new, k)],
                             [k \in IndexKeys |-> Index_peek_all(Index_new, k)]))

NextIndex ==
    \/ \E key \in IndexKeys : IndexInsertSingle(key)
    \/ \E key \in IndexKeys, count \in 0 .. MaxIndexBatch : IndexInsertMultiple(key, count)

SpecIndex == InitIndex /\ [][NextIndex]_vars

(* ------------------- the aliveness test on its own --------------------- *)

AliveChannelIds == 0 .. (MaxAliveChannels - 1)

\* Number of messages on the channels before k in an inventory of the given
\* sizes.
RECURSIVE Before(_, _)
Before(sizes, k) == IF k = 0 THEN 0 ELSE Before(sizes, k - 1) + sizes[k - 1]

\* The inventory of the given sizes: the messages were posted channel by
\* channel before the pattern was registered.
InventoryOf(sizes, modes) ==
    [k \in AliveChannelIds |->
        [j \in 1 .. sizes[k] |-> Message(Before(sizes, k) + j, EnvelopeOf(modes[k + 1]))]]

RECURSIVE IngestedOf(_, _)
IngestedOf(bag, n) ==
    IF n = 0 THEN <<>>
    ELSE IngestedOf(bag, n - 1)
         \o [j \in DOMAIN bag[n - 1] |-> [ch |-> n - 1, msg |-> bag[n - 1][j]]]

\* A Junction with MaxAliveChannels channels on which messages were posted
\* and ingested, and then one Join Pattern registered: any channel list of
\* arity 1 to 3, the last channel of any mode when it is not also an earlier
\* entry of the list (the earlier entries are Send channels).
InitAlive ==
    \E chans \in SeqsOver(AliveChannelIds, 1) \cup SeqsOver(AliveChannelIds, 2)
                  \cup SeqsOver(AliveChannelIds, 3),
       kind \in Modes,
       sizes \in [AliveChannelIds -> 0 .. MaxAliveCount] :
        LET last  == chans[Len(chans)]
            modes == [i \in 1 .. MaxAliveChannels |->
                         IF i - 1 = last THEN kind ELSE "Send"]
            bag   == InventoryOf(sizes, modes)
        IN  /\ (\E i \in 1 .. (Len(chans) - 1) : chans[i] = last) => kind = "Send"
            /\ queue = <<>>
            /\ ctrl = "running"
            /\ latest_channel_id = MaxAliveChannels
            /\ latest_join_pattern_id = 1
            /\ message_counter = Before(sizes, MaxAliveChannels)
            /\ messages = bag
            /\ join_patterns = <<JoinPattern(kind, chans)>>
            /\ join_pattern_last_fired = initialize_last_fired(<<>>, 0)
            /\ join_pattern_index =
                   index_channels([k \in AliveChannelIds |-> <<>>], chans, 0)
            /\ channels = [i \in DOMAIN modes |-> [id |-> i - 1, mode |-> modes[i]]]
            /\ next_uid = Before(sizes, MaxAliveChannels)
            /\ blocked = IF kind = "Send" THEN {}
                         ELSE {bag[last][j].uid : j \in DOMAIN bag[last]}
            /\ broken = {}
            /\ ingested = IngestedOf(bag, MaxAliveChannels)
            /\ fired = <<>>
            /\ running = {}
            /\ replies = <<>>
            /\ control_thread_handle = "Some"
            /\ stop_pc = "idle"
            /\ stops_returned = 0
            /\ failed = None
            /\ controller_handle = "Some"
            /\ junction = "alive"
            /\ taken = <<>>
            /\ probe = None

\* Controller::is_alive applied to a Join Pattern id, registered or not.
AliveTest(join_pattern_id) ==
    /\ is_none(probe)
    /\ probe' = Some([id |-> join_pattern_id,
                      alive |-> is_alive(join_patterns, messages, join_pattern_id)])
    /\ UNCHANGED <<junction_vars, queue, ctrl, controller_vars, channels, next_uid, blocked,
                   broken, log_vars, control_thread_handle, stop_pc,
                   stops_returned, failed>>

NextAlive == \E join_pattern_id \in 0 .. latest_join_pattern_id : AliveTest(join_pattern_id)

SpecAlive == InitAlive /\ [][NextAlive]_vars

(* ------------------------------ claims --------------------------------- *)

\* Number of occurrences of channel k in a channel list.
Mult(chans, k) == Cardinality({i \in DOMAIN chans : chans[i] = k})

IsPrefix(a, b) == Len(a) <= Len(b) /\ SubSeq(b, 1, Len(a)) = a

\* The messages of a firing that were popped for channel c, in the order of
\* the pattern's channel list.
RECURSIVE ArgsOn(_, _, _)
ArgsOn(chans, args, c) ==
    IF chans = <<>> \/ args = <<>> THEN <<>>
    ELSE (IF Head(chans) = c THEN <<Head(args)>> ELSE <<>>)
         \o ArgsOn(Tail(chans), Tail(args), c)

\* The messages handed to handlers for channel c, in firing order.
RECURSIVE DeliveredUpTo(_, _)
DeliveredUpTo(n, c) ==
    IF n = 0 THEN <<>>
    ELSE DeliveredUpTo(n - 1, c)
         \o ArgsOn(join_patterns[fired[n].jp + 1].channels, fired[n].args, c)

DeliveredOn(c) == DeliveredUpTo(Len(fired), c)

\* The messages ingested for channel c, in ingestion order.
RECURSIVE IngestedUpTo(_, _)
IngestedUpTo(n, c) ==
    IF n = 0 THEN <<>>
    ELSE IngestedUpTo(n - 1, c)
         \o (IF ingested[n].ch = c THEN <<ingested[n].msg>> ELSE <<>>)

IngestedOn(c) == IngestedUpTo(Len(ingested), c)

\* C1: Channel FIFO.  For every channel c the messages handed to handlers
\* for c, in firing order, are the first messages ingested for c, in their
\* order of ingestion: no two messages of a channel are reordered.
C1_ChannelFifo ==
    \A c \in ChannelIds : IsPrefix(DeliveredOn(c), IngestedOn(c))

\* C1 witness: two messages of one channel were handed to handlers.
C1_Witness ==
    \E c \in ChannelIds : Len(DeliveredOn(c)) >= 2

\* A step of the coordinator that fires a pattern: the firing it logs.
Fires == Len(fired') = Len(fired) + 1

NewFiring == fired'[Len(fired')]

\* A step of the coordinator that ingests a Message packet.
Ingests == Len(ingested') = Len(ingested) + 1

\* q without its first n elements.
Drop(q, n) == SubSeq(q, n + 1, Len(q))

\* The inventory queue of channel k after the message of the ingesting step
\* was added to it.
AddedOn(k) ==
    IF Ingests /\ ingested'[Len(ingested')].ch = k
    THEN Append(messages[k], ingested'[Len(ingested')].msg)
    ELSE messages[k]

\* C2: Atomic consumption.  Between two states that the processing of
\* packets can see, a firing removes from the inventory queue of every
\* channel k exactly as many messages, from the front, as k occurs in the
\* channel list of the fired pattern, hands the handler one message per entry
\* of the list, and leaves the coordinator running; a step that fires nothing
\* removes nothing from any channel.
C2_AtomicConsumption ==
    [][ IF Fires
        THEN LET chans == join_patterns[NewFiring.jp + 1].channels
             IN  /\ Len(NewFiring.args) = Len(chans)
                 /\ ctrl' = "running"
                 /\ \A k \in ChannelIds :
                        /\ Len(AddedOn(k)) >= Mult(chans, k)
                        /\ messages'[k] = Drop(AddedOn(k), Mult(chans, k))
        ELSE \A k \in ChannelIds : messages'[k] = AddedOn(k) ]_vars

\* C2 witness: a pattern listing one channel twice and another channel once
\* has fired, or one listing a channel three times.
C2_Witness ==
    \E i \in DOMAIN fired :
        /\ Len(join_patterns[fired[i].jp + 1].channels) = 3
        /\ \E k \in ChannelIds :
               Mult(join_patterns[fired[i].jp + 1].channels, k) >= 2

\* C3: Aliveness with multiplicity.  The aliveness test of the coordinator,
\* applied to a registered pattern of arity 1 to 3 with its channels in any
\* order, answers true exactly when the inventory queue of every channel k
\* holds at least as many messages as k occurs in the pattern's channel list.
C3_AliveIffMultiplicity ==
    (is_some(probe) /\ probe[1].id + 1 \in DOMAIN join_patterns) =>
        (probe[1].alive <=>
            \A k \in DOMAIN messages :
                Len(messages[k]) >= Mult(join_patterns[probe[1].id + 1].channels, k))

\* C3 witness: the test answered false for a ternary pattern whose repeated
\* channel is not adjacent in the list and holds one message, the channel
\* between holding one too.
C3_Witness ==
    /\ is_some(probe)
    /\ probe[1].id = 0
    /\ ~probe[1].alive
    /\ LET chans == join_patterns[1].channels
       IN  /\ Len(chans) = 3
           /\ chans[1] = chans[3]
           /\ chans[1] # chans[2]
           /\ Len(messages[chans[1]]) = 1
           /\ Len(messages[chans[2]]) = 1

\* The multiplicity requirements of pattern p are met by the inventory bag.
AliveIn(bag, p) ==
    /\ p + 1 \in DOMAIN join_patterns
    /\ \A k \in ChannelIds : Len(bag[k]) >= Mult(join_patterns[p + 1].channels, k)

\* The candidates of the ingesting step that are alive once the message is
\* added: the patterns listing the channel of the message.
AliveCandidates ==
    {p \in 0 .. (MaxPatterns - 1) :
        /\ AliveIn([k \in ChannelIds |-> AddedOn(k)], p)
        /\ Mult(join_patterns[p + 1].channels, ingested'[Len(ingested')].ch) >= 1}

\* Option order of the last-fired values: never fired is below every fired.
LastFiredLeq(a, b) == is_none(a) \/ (is_some(b) /\ a[1] <= b[1])

\* C4: Selection rule.  Whenever a message is ingested and a candidate
\* pattern is alive, a pattern fires; the pattern that fires is an alive
\* candidate whose last-fired value is less than or equal to that of every
\* alive candidate, never fired counting as less than any fired value.
C4_SelectionRule ==
    [][ /\ (Ingests /\ AliveCandidates # {}) => Fires
        /\ Fires =>
              /\ Ingests
              /\ NewFiring.jp \in AliveCandidates
              /\ \A p \in AliveCandidates :
                     LastFiredLeq(join_pattern_last_fired[NewFiring.jp + 1],
                                  join_pattern_last_fired[p + 1]) ]_vars

\* C4 witness: two unary patterns on one channel fired in turn, and the third
\* message of the channel fired the one whose last firing was the older.
C4_Witness ==
    /\ Len(fired) = 3
    /\ fired[1].jp = fired[3].jp
    /\ fired[2].jp # fired[1].jp
    /\ join_patterns[fired[1].jp + 1].channels = join_patterns[fired[2].jp + 1].channels
    /\ Len(join_patterns[fired[1].jp + 1].channels) = 1

\* C5: At most one firing per ingested message.  The firings carry pairwise
\* different values of the message counter, each the count of a message
\* ingested so far: the processing of one Message packet fires at most one
\* pattern.
C5_OneFiringPerMessage ==
    /\ \A i \in DOMAIN fired : fired[i].at \in 1 .. message_counter
    /\ \A i, j \in DOMAIN fired : i < j => fired[i].at < fired[j].at

\* C5 witness: the last message ingested fired a pattern whose id is twice in
\* the index list of the message's channel, and a pattern is alive on the
\* inventory the firing left.
C5_Witness ==
    /\ Len(fired) = 1
    /\ fired[1].at = message_counter
    /\ \E c \in ChannelIds :
           /\ ingested[Len(ingested)].ch = c
           /\ Cardinality({i \in DOMAIN join_pattern_index[c] :
                               join_pattern_index[c][i] = fired[1].jp}) >= 2
    /\ \E p \in 0 .. (MaxPatterns - 1) : AliveIn(messages, p)

\* C6: Fairness.  In every execution in which the threads of the runtime are
\* scheduled, a registered pattern whose multiplicity requirements are met by
\* the inventory of the running coordinator infinitely often fires
\* infinitely often.
C6_Fairness ==
    \A p \in 0 .. (MaxPatterns - 1) :
        ([]<>(ctrl = "running" /\ AliveIn(messages, p)))
            => []<><<Fires /\ NewFiring.jp = p>>_vars

\* The messages handed to the first n firings, and those of the inventory
\* queues of the channels below n.
RECURSIVE ConsumedUpTo(_)
ConsumedUpTo(n) == IF n = 0 THEN <<>> ELSE ConsumedUpTo(n - 1) \o fired[n].args

RECURSIVE ResidentUpTo(_)
ResidentUpTo(n) == IF n = 0 THEN <<>> ELSE ResidentUpTo(n - 1) \o messages[n - 1]

Consumed == ConsumedUpTo(Len(fired))

Resident == ResidentUpTo(MaxChannels)

NoDuplicates(q) == \A i, j \in DOMAIN q : q[i] = q[j] => i = j

\* C7: Conservation.  The number of Message packets ingested (the message
\* counter) is the number of messages handed to firings plus the number of
\* messages in the inventory; the messages handed to firings and those in
\* the inventory are, without repetition, the messages ingested.
C7_Conservation ==
    /\ message_counter = Len(ingested)
    /\ Len(ingested) = Len(Consumed) + Len(Resident)
    /\ NoDuplicates(Consumed \o Resident)
    /\ SeqRange(Consumed \o Resident) = {ingested[i].msg : i \in DOMAIN ingested}

\* C7 witness: messages were handed to two firings and another ingested
\* message is in the inventory.
C7_Witness ==
    /\ Len(fired) >= 2
    /\ Len(Resident) >= 1

\* The replies sent for firing i.
RepliesOf(i) == {r \in DOMAIN replies : replies[r].firing = i}

\* C8: Reply completion.  A firing of a Recv or Bidir pattern whose handler
\* has run has sent exactly one value, the return value of the handler on the
\* messages of the firing, through the reply endpoint of the last message it
\* consumed, which releases the consumer that posted that message; before
\* the handler has run that consumer is blocked and nothing was sent.  No
\* reply endpoint gets two values, no firing of a Send pattern sends one, and
\* no handler fails.
C8_ReplyCompletion ==
    /\ \A i \in DOMAIN fired :
           LET f    == fired[i]
               kind == join_patterns[f.jp + 1].kind
               ep   == f.args[Len(f.args)].uid
           IN  IF kind = "Send" \/ i \in running
               THEN /\ RepliesOf(i) = {}
                    /\ kind # "Send" => ep \in blocked
               ELSE /\ Cardinality(RepliesOf(i)) = 1
                    /\ \A r \in RepliesOf(i) :
                           /\ replies[r].ep = ep
                           /\ replies[r].val = HandlerReturn(f.jp, f.args)
                    /\ ep \notin blocked
                    /\ ep \notin broken
    /\ \A r, q \in DOMAIN replies : replies[r].ep = replies[q].ep => r = q
    /\ ~(is_some(failed) /\ failed[1].op = "handler")

\* C8 witness: a pattern of a Send channel and a Recv or Bidir channel fired
\* and its handler replied, while another consumer is still blocked.
C8_Witness ==
    /\ blocked # {}
    /\ \E r \in DOMAIN replies :
           Len(join_patterns[fired[replies[r].firing].jp + 1].channels) >= 2

\* C9: the second stop().  Once a call of stop() has returned the
\* coordinator is stopped and stays stopped, it processes no further packet
\* (its state and the logs of ingestions and firings do not change, no packet
\* is queued), and a further call of stop() does not return: it panics in the
\* calling thread.
C9_SecondStopPanics ==
    [][ stops_returned >= 1 =>
          /\ ctrl = "stopped"
          /\ ctrl' = "stopped"
          /\ queue' = <<>>
          /\ UNCHANGED <<controller_vars, ingested, fired>>
          /\ stops_returned' = stops_returned
          /\ stop_pc' # stop_pc => stop_pc' = "panicked" ]_vars

\* C9 witness: stop() returned once and was called again.
C9_Witness ==
    /\ stops_returned = 1
    /\ stop_pc = "panicked"
    /\ control_thread_handle = "None"

\* C9 as stated: after a first stop() has returned, a call of stop()
\* completes without failure.
C9_StopIdempotent ==
    stops_returned >= 1 => stop_pc # "panicked"

\* C10: posting after shutdown.  No packet is accepted once the coordinator
\* has stopped, and an operation that posts then fails: a channel's send,
\* recv or send_recv returns a failure value to its caller, while an identity
\* request (send_channel, recv_channel, bidir_channel) and a registration
\* (then_do) panic in the calling thread.
C10_PostAfterShutdown ==
    /\ ctrl # "running" => queue = <<>>
    /\ (is_some(failed) /\ failed[1].op # "handler") =>
          /\ ctrl # "running"
          /\ failed[1].op \in Modes => failed[1].res = "Err"
          /\ failed[1].op \in {"new_channel_id", "then_do", "send_channel"} =>
                 failed[1].res = "Panic"
          /\ failed[1].op \in Modes \cup {"new_channel_id", "then_do", "send_channel"}

\* C10 witness: a registration was attempted after the coordinator stopped.
C10_Witness ==
    /\ ctrl = "stopped"
    /\ is_some(failed)
    /\ failed[1].op = "then_do"

\* C10 as stated: an operation that posts after the coordinator has stopped
\* (a channel operation, an identity request, a registration) reports a
\* failure value and never panics.
C10_RecoverableFailure ==
    (is_some(failed) /\ failed[1].op \in Modes \cup {"new_channel_id", "then_do"}) =>
        failed[1].res = "Err"

\* The step in which the control thread ends on a ShutDownRequest.
ShutsDown == ctrl = "running" /\ ctrl' = "stopped"

\* C11: Shutdown releases blocked consumers.  When the control thread ends on
\* a ShutDownRequest, every consumer blocked on a reply endpoint whose request
\* is in the inventory or in the packet queue is released with a failure;
\* and once stop() has been called, every blocked consumer eventually
\* returns.
C11_ShutdownReleases ==
    /\ [][ ShutsDown =>
              \A u \in blocked :
                  u \in OwnedEndpoints => (u \in broken' /\ u \notin blocked') ]_vars
    /\ \A u \in 1 .. MaxMsgs :
           (stop_pc = "joining" /\ u \in blocked) ~> (u \notin blocked)

\* C11 witness: the coordinator stopped and released with a failure a
\* consumer whose request is in the inventory and one whose request was
\* still queued.
C11_Witness ==
    /\ ctrl = "stopped"
    /\ \E u \in broken : \E k \in ChannelIds : \E i \in DOMAIN messages[k] :
           messages[k][i].uid = u
    /\ \E u \in broken : \A k \in ChannelIds : \A i \in DOMAIN messages[k] :
           messages[k][i].uid # u

\* C12: Handle extraction.  The first call of controller_handle() yields the
\* handle and every later call nothing.  Dropping a Junction whose handle was
\* extracted posts nothing and leaves the coordinator as it is, and as long
\* as the client has not called stop() the coordinator keeps running with no
\* ShutDownRequest queued.  A Junction whose handle was never extracted posts
\* a ShutDownRequest when dropped, and its drop has returned only when the
\* control thread has ended.
C12_HandleExtraction ==
    [][ /\ \A i \in DOMAIN taken' : taken'[i] = IF i = 1 THEN "Some" ELSE "None"
        /\ (junction = "alive" /\ junction' # "alive" /\ Extracted) =>
               (junction' = "dropped" /\ UNCHANGED <<queue, ctrl, controller_vars>>)
        /\ (Extracted /\ stop_pc = "idle" /\ stops_returned = 0) =>
               (ctrl = "running" /\ InFlight("ShutDownRequest") = 0)
        /\ (junction = "alive" /\ junction' # "alive" /\ ~Extracted) =>
               (junction' = "dropping" /\ queue' = Append(queue, ShutDownRequest))
        /\ (junction' = "dropped" /\ ~Extracted) => ctrl' = "stopped" ]_vars

\* C12 witness: the handle was extracted, a second call yielded nothing, the
\* Junction was dropped, and the coordinator is running with a packet queued
\* and a pattern fired.
C12_Witness ==
    /\ Len(taken) = 2
    /\ junction = "dropped"
    /\ ctrl = "running"
    /\ queue # <<>>
    /\ Len(fired) >= 1

\* C13: Cross-junction exclusion.  A builder step given a channel of another
\* Junction panics, posts nothing and completes nothing, and only such a step
\* panics; every channel of a partial pattern and of a pattern completed with
\* then_do carries the junction id of the builder.
C13_CrossJunctionExclusion ==
    /\ [](is_some(probe) =>
            LET b == probe[1]
            IN  /\ b.st = "panicked" <=>
                       (is_some(b.arg) /\ b.arg[1].junction_id # b.junction_id)
                /\ \A i \in DOMAIN b.chans : b.chans[i].junction_id = b.junction_id
                /\ \A n \in DOMAIN b.built : \A i \in DOMAIN b.built[n] :
                       b.built[n][i].junction_id = b.junction_id)
    /\ [][ (is_some(probe) /\ probe[1].st # "panicked"
                            /\ probe'[1].st = "panicked") =>
              (UNCHANGED <<queue, controller_vars>>
                  /\ probe'[1].built = probe[1].built) ]_vars

\* C13 witness: a partial pattern of two channels was offered a channel of
\* another Junction and the step panicked.
C13_Witness ==
    /\ is_some(probe)
    /\ probe[1].st = "panicked"
    /\ Len(probe[1].chans) = 2
    /\ Len(probe[1].built) = 1

\* A channel list a builder may register: one to three channels, every one
\* but the last a Send channel.
WellFormedModes(modes) ==
    /\ Len(modes) \in 1 .. 3
    /\ \A i \in 1 .. (Len(modes) - 1) : modes[i] = "Send"

\* The registrations posted or processed.
Registrations ==
    SeqRange(join_patterns)
      \cup {queue[i].join_pattern :
               i \in {j \in DOMAIN queue : queue[j].type = "AddJoinPatternRequest"}}

\* C14: At most one synchronous terminal.  Every pattern completed with
\* then_do, posted or registered has one to three channels of which only the
\* last may be a Recv or Bidir channel, its variant being the mode of the
\* last channel; and the only step of a builder that holds a Recv or Bidir
\* channel is then_do.
C14_OneSyncTerminal ==
    /\ [](is_some(probe) =>
            /\ \A n \in DOMAIN probe[1].built :
                   WellFormedModes([i \in DOMAIN probe[1].built[n] |->
                                       probe[1].built[n][i].mode])
            /\ \A jp \in Registrations :
                   /\ WellFormedModes([i \in DOMAIN jp.channels |->
                                           ModeOf(jp.channels[i])])
                   /\ jp.kind = ModeOf(jp.channels[Len(jp.channels)]))
    /\ [][ (/\ is_some(probe)
            /\ probe[1].st = "partial"
            /\ probe[1].chans[Len(probe[1].chans)].mode # "Send"
            /\ probe' # probe) =>
              (/\ probe'[1].st = "idle"
               /\ probe'[1].built = Append(probe[1].built, probe[1].chans)) ]_vars

\* C14 witness: a pattern of two Send channels and a Recv channel is
\* registered and the builder holds a Send and a Recv channel.
C14_Witness ==
    /\ is_some(probe)
    /\ probe[1].st = "partial"
    /\ Len(probe[1].chans) = 2
    /\ probe[1].chans[2].mode = "Recv"
    /\ \E n \in DOMAIN join_patterns :
           /\ Len(join_patterns[n].channels) = 3
           /\ join_patterns[n].kind = "Recv"

\* C15: Channel id uniqueness.  Whatever the interleaving of the
\* NewChannelIdRequest packets of the clients with each other and with other
\* packets, no two channels made on the Junction were given the same id.
C15_ChannelIdUnique ==
    \A i, j \in DOMAIN channels : channels[i].id = channels[j].id => i = j

\* C15 witness: two channels were made, the request of the second posted
\* while messages on the first were being ingested.
C15_Witness ==
    /\ Len(channels) = 2
    /\ message_counter >= 1
    /\ \E i \in DOMAIN queue : queue[i].type = "Message"

\* C16: Junction id uniqueness.  No two Junctions of the program have the
\* same id, in whatever order the threads creating them take their ids from
\* the program-wide counter.
C16_JunctionIdUnique ==
    \A t1, t2 \in Threads :
        \A i \in DOMAIN probe[1].ids[t1], j \in DOMAIN probe[1].ids[t2] :
            probe[1].ids[t1][i] = probe[1].ids[t2][j] => (t1 = t2 /\ i = j)

\* C16 witness: one thread created a Junction between two creations of
\* another thread, and every thread has created all its Junctions.
C16_Witness ==
    /\ \A t \in Threads : Len(probe[1].ids[t]) = MaxNews
    /\ \E t1, t2 \in Threads :
           /\ t1 # t2
           /\ probe[1].ids[t1][1] < probe[1].ids[t2][1]
           /\ probe[1].ids[t2][1] < probe[1].ids[t1][2]

\* The queue after a step is the queue before it, or that queue without its
\* head, or with one packet added at its tail, or, the coordinator having
\* stopped, empty.
QueueOrderKept ==
    \/ queue' = queue
    \/ queue # <<>> /\ queue' = Tail(queue)
    \/ Len(queue') = Len(queue) + 1 /\ SubSeq(queue', 1, Len(queue)) = queue
    \/ ctrl' # "running" /\ queue' = <<>>

\* The ids the index lists under channel c: the candidates examined when a
\* message on c is ingested.
CandidatesOn(c) ==
    {join_pattern_index[c][i] : i \in DOMAIN join_pattern_index[c]}

\* The patterns registered so far that list channel c.
RegisteredOn(c) ==
    {p \in 0 .. (Len(join_patterns) - 1) : Mult(join_patterns[p + 1].channels, c) >= 1}

\* The registering step: the AddJoinPatternRequest at the head of the queue
\* is taken, the pattern gets the next id, and every channel of its list
\* lists that id in the index.
RegistersHead ==
    (queue # <<>> /\ Head(queue).type = "AddJoinPatternRequest"
                  /\ ctrl = "running" /\ queue' = Tail(queue))
    => /\ join_patterns' = Append(join_patterns, Head(queue).join_pattern)
       /\ \A i \in DOMAIN Head(queue).join_pattern.channels :
              \E j \in DOMAIN join_pattern_index'[Head(queue).join_pattern.channels[i]] :
                  join_pattern_index'[Head(queue).join_pattern.channels[i]][j]
                      = Len(join_patterns)

\* No step takes a pattern out of the registry or an id out of the index
\* while the coordinator runs.
RegistrationKept ==
    ctrl' = "running"
    => /\ IsPrefix(join_patterns, join_patterns')
       /\ \A c \in ChannelIds : IsPrefix(join_pattern_index[c], join_pattern_index'[c])

\* Pattern p is alive on the inventory of the ingesting step, and the
\* last-fired value of every other alive candidate is larger than
\* (orEqual: or equal to) that of p.
LeastAlive(p, orEqual) ==
    /\ p \in AliveCandidates
    /\ \A q \in AliveCandidates \ {p} :
           /\ LastFiredLeq(join_pattern_last_fired[p + 1], join_pattern_last_fired[q + 1])
           /\ orEqual \/ ~LastFiredLeq(join_pattern_last_fired[q + 1],
                                        join_pattern_last_fired[p + 1])

\* The ingesting step takes the Message packet at the head of the queue;
\* every pattern registered by then that lists its channel is a candidate,
\* and such a pattern fires on the message if it is least alive.
IngestsHead(orEqual) ==
    Ingests
    => /\ queue # <<>> /\ Head(queue).type = "Message" /\ queue' = Tail(queue)
       /\ ingested'[Len(ingested')].ch = Head(queue).channel_id
       /\ \A p \in RegisteredOn(Head(queue).channel_id) :
              /\ p \in CandidatesOn(Head(queue).channel_id)
              /\ LeastAlive(p, orEqual) => (Fires /\ NewFiring.jp = p)

\* C17 as stated: registration before message, a registered pattern firing
\* on the message if it is alive and no other alive candidate has a smaller
\* last-fired value.
C17_FiresIfNoneSmaller ==
    [][ QueueOrderKept /\ RegistersHead /\ RegistrationKept /\ IngestsHead(TRUE) ]_vars

\* C17: Registration before message.  Packets are taken from the head of the
\* queue and added at its tail, so a pattern whose AddJoinPatternRequest
\* precedes a Message packet m on one of its channels is registered and
\* indexed under that channel when m is ingested; it is among the candidates
\* examined, and it fires on m if it is alive and every other alive candidate
\* has a larger last-fired value (of alive candidates that were never fired,
\* one fires).
C17_RegistrationBeforeMessage ==
    [][ QueueOrderKept /\ RegistersHead /\ RegistrationKept /\ IngestsHead(FALSE) ]_vars

\* C17 witness: two patterns on one channel were registered before two
\* messages on it; the first message fired one of them and the second, just
\* ingested, fired the other, both being alive candidates.
C17_Witness ==
    /\ Len(join_patterns) = 2
    /\ join_patterns[1].channels = join_patterns[2].channels
    /\ Len(join_patterns[1].channels) = 1
    /\ Len(fired) = 2
    /\ fired[1].jp # fired[2].jp
    /\ fired[2].at = message_counter
    /\ message_counter = 2

\* The positions in the index list of channel c of the alive candidates whose
\* last-fired value no alive candidate is below.
LeastPositions(c) ==
    {i \in DOMAIN join_pattern_index[c] : LeastAlive(join_pattern_index[c][i], TRUE)}

\* The pattern the packet stream determines to fire on a message on c: of
\* the least alive candidates, the one registered first under c.
FirstLeast(c) ==
    join_pattern_index[c][CHOOSE i \in LeastPositions(c) :
                              \A j \in LeastPositions(c) : i <= j]

\* The messages the packet stream determines a firing on the channel list
\* to consume: for its i-th entry, naming channel k for the n-th time, the
\* n-th oldest message of k.
ExpectedArgs(chans) ==
    [i \in DOMAIN chans |->
        AddedOn(chans[i])[Cardinality({j \in 1 .. i : chans[j] = chans[i]})]]

\* C18: Determinism.  What the coordinator does with a packet is a function
\* of the packets it was given before: a Message packet fires the pattern,
\* on the messages and at the count, that the inventory, the index and the
\* last-fired table built from the earlier packets determine (of alive
\* candidates tying on the last-fired value, never fired included, the one
\* registered first), or nothing if no candidate is alive; a channel and a
\* pattern get as id the number of channels and of patterns made before.
C18_Determinism ==
    [][ /\ Ingests =>
              /\ message_counter' = message_counter + 1
              /\ ingested'[Len(ingested')] =
                     [ch |-> Head(queue).channel_id, msg |-> Head(queue).msg]
              /\ IF AliveCandidates = {}
                 THEN /\ ~Fires
                      /\ join_pattern_last_fired' = join_pattern_last_fired
                 ELSE LET p == FirstLeast(Head(queue).channel_id)
                      IN  /\ Fires
                          /\ NewFiring =
                                 [jp |-> p,
                                  args |-> ExpectedArgs(join_patterns[p + 1].channels),
                                  at |-> message_counter + 1]
                          /\ join_pattern_last_fired' =
                                 [join_pattern_last_fired EXCEPT
                                     ![p + 1] = Some(message_counter + 1)]
        /\ Fires => Ingests
        /\ Len(channels') = Len(channels) + 1 =>
              /\ channels'[Len(channels')].id = Len(channels)
              /\ SubSeq(channels', 1, Len(channels)) = channels
        /\ Len(join_patterns') = Len(join_patterns) + 1 =>
              /\ latest_join_pattern_id = Len(join_patterns)
              /\ latest_join_pattern_id' = Len(join_patterns')
              /\ join_pattern_last_fired' = Append(join_pattern_last_fired, None)
              /\ \A c \in ChannelIds :
                     join_pattern_index'[c] = join_pattern_index[c] \o
                         [i \in 1 .. Mult(Head(queue).join_pattern.channels, c) |->
                              Len(join_patterns)] ]_vars

\* C18 witness: two patterns with the same list of two channels were alive
\* together, neither fired before, and the message just ingested fired one
\* of them.
C18_Witness ==
    /\ Len(join_patterns) = 2
    /\ join_patterns[1].channels = join_patterns[2].channels
    /\ Len(join_patterns[1].channels) = 2
    /\ Len(fired) = 1
    /\ fired[1].at = message_counter
    /\ \E p \in {1, 2} : is_none(join_pattern_last_fired[p])

\* C19: Storage cell scenario.  With the patterns put-val and val-get
\* registered, after val.send(initial), put.send(new) the client's
\* get.recv() returns new and the following get.recv() returns new again:
\* no recv returns another value, and in every scheduling of the client, the
\* control thread and the worker threads both recv calls return.
C19_StorageCell ==
    /\ [](\A i \in DOMAIN probe[1].results : probe[1].results[i] = probe[1].new)
    /\ <>(probe[1].results = <<probe[1].new, probe[1].new>>)

\* C19 witness: both recv calls have returned, the first get message
\* having been ingested while the inventory of val was empty (the value
\* still with the worker thread of put-val).
C19_Witness ==
    /\ Len(probe[1].results) = MaxGets
    /\ Len(fired) = 3
    /\ fired[2].at > 3

\* C20: Mutex scenario.  At no time have both threads returned from
\* acquire.recv() without one of them having sent its release since, and
\* in every scheduling of the threads every acquire.recv() returns (each
\* thread gets to the end of its rounds).
C20_Mutex ==
    /\ [](\A t, u \in MutexThreads :
             (probe[1].pc[t] = "holding" /\ probe[1].pc[u] = "holding") => t = u)
    /\ \A t \in MutexThreads : <>(probe[1].rounds[t] = MaxRounds)

\* C20 witness: one thread holds the mutex while the acquire message of the
\* other waits in the inventory, no lock message being there.
C20_Witness ==
    /\ \E t \in MutexThreads : probe[1].pc[t] = "holding"
    /\ \E u \in MutexThreads : probe[1].pc[u] = "waiting"
    /\ Len(messages[MutexAcquire]) = 1
    /\ messages[MutexLock] = <<>>

\* The messages on channel c that are still in the packet queue.
QueuedOn(c) ==
    {queue[i].msg : i \in {j \in DOMAIN queue :
                               queue[j].type = "Message" /\ queue[j].channel_id = c}}

\* C21: A recv without a pattern blocks.  While the coordinator runs and no
\* registered pattern lists the Recv channel c, no recv on c has returned:
\* every request message posted on c is in the queue or, once ingested, in
\* the inventory of c, in ingestion order, its consumer blocked and no value
\* sent through its reply endpoint, whatever was sent and fired elsewhere.
C21_UnlistedRecvBlocks ==
    \A c \in Created :
        (ctrl = "running" /\ ModeOf(c) = "Recv" /\ RegisteredOn(c) = {}) =>
            /\ messages[c] = IngestedOn(c)
            /\ \A m \in SeqRange(messages[c]) \cup QueuedOn(c) :
                   /\ m.uid \in blocked
                   /\ m.uid \notin broken
                   /\ \A r \in DOMAIN replies : replies[r].ep # m.uid

\* C21 witness: the request of a recv on a channel no pattern lists is in
\* the inventory while a pattern on another channel has fired after it was
\* ingested.
C21_Witness ==
    \E c \in Created :
        /\ ctrl = "running" /\ ModeOf(c) = "Recv" /\ RegisteredOn(c) = {}
        /\ Len(messages[c]) = 1
        /\ Len(ingested) >= 2 /\ ingested[1].ch = c
        /\ Len(fired) >= 1

\* C22: Firing never pops from an empty queue.  The control thread never
\* panics; in every firing, for every position i of the channel list of the
\* fired pattern, the inventory of the channel at i (with the message just
\* ingested) holds at least as many messages as the channel has occurrences
\* up to i, and the message handed over for i is there.
C22_NoEmptyPop ==
    [][ /\ ctrl' # "panicked"
        /\ Fires =>
              LET chans == join_patterns[NewFiring.jp + 1].channels
              IN  /\ DOMAIN NewFiring.args = DOMAIN chans
                  /\ \A i \in DOMAIN chans :
                         /\ Cardinality({j \in 1 .. i : chans[j] = chans[i]})
                                <= Len(AddedOn(chans[i]))
                         /\ NewFiring.args[i] \in SeqRange(AddedOn(chans[i])) ]_vars

\* C22 witness: a pattern whose list names one channel first and last and
\* another channel in between has fired.
C22_Witness ==
    \E i \in DOMAIN fired :
        LET chans == join_patterns[fired[i].jp + 1].channels
        IN  /\ Len(chans) = 3
            /\ chans[1] = chans[3]
            /\ chans[1] # chans[2]

\* A step in which the running control thread takes the packet at the head
\* of the queue and goes on.
ProcessesPacket ==
    /\ ctrl = "running" /\ ctrl' = "running"
    /\ queue # <<>> /\ queue' = Tail(queue)

\* The registered patterns whose multiplicity requirements the inventory
\* meets.
LeftFirable == {p \in 0 .. (Len(join_patterns) - 1) : AliveIn(messages, p)}

\* The patterns examined by the processing of the packet at the head of the
\* queue: for a Message packet the patterns the index lists under its
\* channel, for any other packet none.
Examined ==
    IF Head(queue).type = "Message"
    THEN CandidatesOn(Head(queue).channel_id)
    ELSE {}

\* C23: Patterns left firable are reconsidered at the next packet.  Every
\* registered pattern whose multiplicity requirements the inventory meets
\* after a packet was processed is among the patterns examined when the next
\* packet, of any kind, is processed, and one of them fires.
C23_ReconsideredAtNextPacket ==
    [][ (ProcessesPacket /\ LeftFirable # {}) =>
            (LeftFirable \subseteq Examined /\ Fires) ]_vars

\* C24: Candidate narrowing.  A pattern fires only in the processing of a
\* Message packet and lists the channel of that packet; when no registered
\* pattern lists the channel, the processing appends the message to the
\* inventory of the channel, increments the counter and changes nothing else
\* of the coordinator, whatever patterns are alive.
C24_CandidateNarrowing ==
    [][ /\ Fires =>
              /\ Ingests
              /\ Mult(join_patterns[NewFiring.jp + 1].channels,
                      Head(queue).channel_id) >= 1
        /\ (Ingests /\ RegisteredOn(Head(queue).channel_id) = {}) =>
              /\ ~Fires
              /\ messages' = [messages EXCEPT ![Head(queue).channel_id] =
                                  Append(@, Head(queue).msg)]
              /\ message_counter' = message_counter + 1
              /\ UNCHANGED <<ctrl, latest_channel_id, latest_join_pattern_id,
                             join_patterns, join_pattern_last_fired,
                             join_pattern_index, running>> ]_vars

\* C24 witness: the message just ingested is on a channel no pattern lists,
\* a registered pattern on another channel is alive, and nothing has fired.
C24_Witness ==
    /\ ctrl = "running"
    /\ fired = <<>>
    /\ Len(ingested) = 2
    /\ message_counter = 2
    /\ RegisteredOn(ingested[2].ch) = {}
    /\ messages[ingested[2].ch] = <<ingested[2].msg>>
    /\ LeftFirable # {}

\* Pattern p is A (on x alone), is B (on x and y).
IsA(p) == Len(join_patterns[p + 1].channels) = 1

IsB(p) == Len(join_patterns[p + 1].channels) = 2

\* The count at which message m was ingested.
IngestedAt(m) == CHOOSE n \in DOMAIN ingested : ingested[n].msg = m

\* C25: Starvation freedom of a superset pattern.  Every arrival on x fires
\* a pattern: A when no message is queued on y; and when the oldest message
\* queued on y was already there at the previous firing and that firing was
\* A's, B, which consumes that message.  So a message on y at the head of
\* its queue is consumed by B at the latest at the second arrival on x, and
\* A fires on the arrivals on x in between.  An arrival on y fires nothing,
\* the inventory of x being empty.
C25_SupersetNotStarved ==
    [][ /\ (Ingests /\ Head(queue).channel_id = StarveX) =>
              /\ Fires
              /\ messages[StarveY] = <<>> => IsA(NewFiring.jp)
              /\ ( /\ messages[StarveY] # <<>>
                   /\ fired # <<>>
                   /\ IsA(fired[Len(fired)].jp)
                   /\ fired[Len(fired)].at > IngestedAt(Head(messages[StarveY])) )
                 => /\ IsB(NewFiring.jp)
                    /\ Head(messages[StarveY]) \in SeqRange(NewFiring.args)
        /\ (Ingests /\ Head(queue).channel_id = StarveY) =>
              /\ messages[StarveX] = <<>>
              /\ ~Fires ]_vars

\* C25 witness: B fired, a message arrived on y, the next arrival on x
\* fired A, whose last firing was the older, and the arrival on x after
\* that fired B on the message of y.
C25_Witness ==
    /\ Len(fired) = 4
    /\ IsB(fired[2].jp)
    /\ IsA(fired[3].jp)
    /\ IsB(fired[4].jp)
    /\ \E i \in DOMAIN fired[4].args :
           /\ \E n \in DOMAIN ingested :
                  /\ ingested[n].msg = fired[4].args[i]
                  /\ ingested[n].ch = StarveY
                  /\ n < fired[3].at

\* The smaller of two numbers.
Min(m, n) == IF m <= n THEN m ELSE n

\* C26: Pairing in a binary Send pattern.  Whatever the order in which the
\* messages on a and b are ingested, there are as many firings as both
\* channels have ingested messages, and the i-th firing was given the i-th
\* message ingested on a and the i-th message ingested on b, in this order.
C26_Pairing ==
    /\ Len(fired) = Min(Len(IngestedOn(PairA)), Len(IngestedOn(PairB)))
    /\ \A i \in DOMAIN fired :
           fired[i].args = <<IngestedOn(PairA)[i], IngestedOn(PairB)[i]>>

\* C26 witness: the first and second message sent were ingested on a, the
\* third and fourth on b, and the two firings were given the first with the
\* third and the second with the fourth.
C26_Witness ==
    /\ Len(ingested) = 4
    /\ [i \in 1 .. 4 |-> ingested[i].ch] = <<PairA, PairA, PairB, PairB>>
    /\ [i \in 1 .. 4 |-> ingested[i].msg.uid] = <<1, 2, 3, 4>>
    /\ Len(fired) = 2
    /\ [i \in 1 .. 2 |-> fired[1].args[i].uid] = <<1, 3>>
    /\ [i \in 1 .. 2 |-> fired[2].args[i].uid] = <<2, 4>>

\* C27: Positional argument order.  In every firing the i-th message handed
\* to the handler was ingested on the channel at position i of the pattern's
\* channel list and is an envelope of that channel's kind; of two positions
\* naming the same channel the earlier gets the message ingested earlier;
\* the downcasts of the transformed function succeed and no handler fails.
C27_PositionalArguments ==
    /\ \A f \in DOMAIN fired :
           LET chans == join_patterns[fired[f].jp + 1].channels
               args  == fired[f].args
           IN  /\ DOMAIN args = DOMAIN chans
               /\ \A i \in DOMAIN chans :
                      /\ [ch |-> chans[i], msg |-> args[i]] \in SeqRange(ingested)
                      /\ args[i].ty = EnvelopeOf(ModeOf(chans[i]))
               /\ \A i, j \in DOMAIN chans :
                      (i < j /\ chans[i] = chans[j]) =>
                          IngestedAt(args[i]) < IngestedAt(args[j])
               /\ downcasts_ok(join_patterns[fired[f].jp + 1].kind, args)
    /\ is_some(failed) => failed[1].op # "handler"

\* C27 witness: the handler of a pattern on a Send channel and a channel of
\* another mode has run, and a pattern listing one channel twice has fired.
C27_Witness ==
    /\ \E f \in DOMAIN fired :
           /\ f \notin running
           /\ Len(fired[f].args) >= 2
           /\ fired[f].args[1].ty # fired[f].args[Len(fired[f].args)].ty
    /\ \E f \in DOMAIN fired :
           \E i, j \in DOMAIN fired[f].args :
               i < j /\ join_patterns[fired[f].jp + 1].channels[i]
                           = join_patterns[fired[f].jp + 1].channels[j]

\* The firings of pattern p so far.
FiringsOf(p) == {f \in DOMAIN fired : fired[f].jp = p}

\* C28: Last-fired update.  A registered pattern has no last-fired value
\* exactly as long as it has not fired, and otherwise the count of its latest
\* firing; the registration of a pattern adds an entry without a value; a
\* firing of pattern p sets the value of p to the message counter after the
\* packet was counted and leaves the entries of the other patterns as they
\* were; no other step changes the table.
C28_LastFiredUpdate ==
    /\ [](/\ Len(join_pattern_last_fired) = Len(join_patterns)
          /\ \A p \in 0 .. (Len(join_patterns) - 1) :
                 IF FiringsOf(p) = {}
                 THEN is_none(join_pattern_last_fired[p + 1])
                 ELSE \E f \in FiringsOf(p) :
                          /\ join_pattern_last_fired[p + 1] = Some(fired[f].at)
                          /\ \A g \in FiringsOf(p) : g <= f)
    /\ [][ IF Fires
           THEN /\ message_counter' = message_counter + 1
                /\ join_pattern_last_fired' =
                       [join_pattern_last_fired EXCEPT
                           ![NewFiring.jp + 1] = Some(message_counter')]
           ELSE IF Len(join_patterns') = Len(join_patterns) + 1
           THEN join_pattern_last_fired' = Append(join_pattern_last_fired, None)
           ELSE join_pattern_last_fired' = join_pattern_last_fired ]_vars

\* C28 witness: of two registered patterns one has fired twice and the other
\* once in between; the table holds the counts of the latest firing of each.
C28_Witness ==
    /\ Len(join_patterns) = 2
    /\ Len(fired) = 3
    /\ fired[1].jp = fired[3].jp
    /\ fired[2].jp # fired[1].jp
    /\ join_pattern_last_fired[fired[3].jp + 1] = Some(fired[3].at)
    /\ join_pattern_last_fired[fired[2].jp + 1] = Some(fired[2].at)
    /\ fired[3].at > fired[2].at

\* A step in which the running control thread takes the packet at the head
\* of the queue.
Dequeues ==
    /\ ctrl = "running"
    /\ queue # <<>>
    /\ queue' = Tail(queue) \/ ctrl' # "running"

\* C29: Message counter.  The counter is the number of Message packets the
\* coordinator has processed: it starts at zero, the processing of a Message
\* packet adds one whether or not a pattern fires, and no other step, the
\* processing of a NewChannelIdRequest, AddJoinPatternRequest or
\* ShutDownRequest included, changes it.
C29_MessageCounter ==
    /\ message_counter = 0
    /\ [](message_counter = Len(ingested))
    /\ [][ IF Dequeues /\ Head(queue).type = "Message"
           THEN message_counter' = message_counter + 1
           ELSE message_counter' = message_counter ]_vars

\* C29 witness: three Message packets were counted, one of them with a
\* firing and two without, a pattern and a channel were registered, and the
\* ShutDownRequest was processed.
C29_Witness ==
    /\ message_counter = 3
    /\ Len(fired) = 1
    /\ Len(join_patterns) >= 1
    /\ ctrl = "stopped"

\* A ShutDownRequest is queued for the running control thread.
ShutDownQueued ==
    /\ ctrl = "running"
    /\ \E i \in DOMAIN queue : queue[i].type = "ShutDownRequest"

\* The number of packets of the type queued ahead of the first
\* ShutDownRequest.
Preceding(type) ==
    LET first == CHOOSE i \in DOMAIN queue :
                     /\ queue[i].type = "ShutDownRequest"
                     /\ \A j \in 1 .. (i - 1) : queue[j].type # "ShutDownRequest"
    IN  Cardinality({j \in 1 .. (first - 1) : queue[j].type = type})

\* The number of packets of the type processed so far: messages ingested,
\* channel ids issued, patterns registered.
Processed(type) ==
    CASE type = "Message" -> Len(ingested)
      [] type = "NewChannelIdRequest" -> Len(channels)
      [] type = "AddJoinPatternRequest" -> Len(join_patterns)

\* The most packets of the type a run processes.
MostProcessed(type) ==
    CASE type = "Message" -> MaxMsgs
      [] type = "NewChannelIdRequest" -> MaxChannels
      [] type = "AddJoinPatternRequest" -> MaxPatterns

\* C30: No processing after shutdown.  The control thread ends normally only
\* by taking a ShutDownRequest from the head of the queue, and stop() returns
\* only when it has ended; from then on no message is ingested, no pattern is
\* registered or fired and no channel id is issued.  Of each type of packet,
\* the control thread that has ended has processed, beyond those processed
\* when the ShutDownRequest was in the queue, exactly the packets then queued
\* ahead of it: all of these and none queued behind it.
C30_NoProcessingAfterShutdown ==
    /\ [][ /\ (ctrl = "running" /\ ctrl' = "stopped") =>
                  (queue # <<>> /\ Head(queue).type = "ShutDownRequest")
           /\ ctrl = "stopped" =>
                  /\ ctrl' = "stopped"
                  /\ UNCHANGED <<controller_vars, channels, ingested, fired>>
           /\ stops_returned' # stops_returned => ctrl = "stopped" ]_vars
    /\ \A type \in {"Message", "NewChannelIdRequest", "AddJoinPatternRequest"} :
       \A n \in 0 .. MostProcessed(type) :
           []((ShutDownQueued /\ Processed(type) + Preceding(type) = n) =>
                  [](ctrl = "stopped" => Processed(type) = n))

\* C30 witness: stop() has returned; the control thread ingested the message
\* queued ahead of the ShutDownRequest and dropped the one queued behind it.
C30_Witness ==
    /\ ctrl = "stopped"
    /\ stops_returned = 1
    /\ next_uid = 2
    /\ Len(ingested) = 1
    /\ ingested[1].msg.uid = 1

\* C31: Handlers complete before shutdown finishes.  When stop() has
\* returned, every handler started by a firing has run to completion: no
\* worker thread of a firing is still running.
C31_HandlersCompleteBeforeStop ==
    stops_returned >= 1 => running = {}

\* The rendezvous program.
Rdv == probe[1]

\* The entry requests consumed by firings so far.
EntriesConsumed ==
    {f \in DOMAIN fired : join_patterns[fired[f].jp + 1].channels = <<RdvToken, RdvEntry>>}

\* The client threads that have called entry.recv().
Entered == {c \in DOMAIN Rdv.clients : Rdv.clients[c].pc # "start"}

\* The message with the uid was ingested.
Ingested(u) == \E i \in DOMAIN ingested : ingested[i].msg.uid = u

\* The message with the uid was consumed by a firing.
FiredWith(u) ==
    \E f \in DOMAIN fired : \E i \in DOMAIN fired[f].args : fired[f].args[i].uid = u

\* The endpoints the functions of running firings wait on in wait.recv().
HandlerWaits == {h[2] : h \in Rdv.hwait}

\* C32: The coordinator never waits for a handler.  Whatever handlers are
\* running or blocked, the control thread can take the packet at the head of
\* a non-empty queue, and every message posted, by a handler included, is
\* ingested; the recv a handler blocks in is answered only by a firing of a
\* pattern on its request, and is answered once that pattern has fired.
C32_CoordinatorNeverWaits ==
    /\ []((ctrl = "running" /\ queue # <<>>) => ENABLED Coordinator)
    /\ []<>(\A u \in 1 .. next_uid : Ingested(u))
    /\ [](\A u \in HandlerWaits : u \notin blocked => FiredWith(u))
    /\ (\E u \in HandlerWaits : FiredWith(u)) ~> (HandlerWaits \cap blocked = {})

\* C32 witness: while the function of the accept_n pattern is blocked in
\* wait.recv(), the control thread has ingested the token and the wait
\* request that function posted and has fired the token-entry pattern.
C32_Witness ==
    /\ \E h \in Rdv.hwait :
           /\ h[1] \in running
           /\ h[2] \in blocked
           /\ \E i \in DOMAIN ingested : ingested[i].msg.uid = h[2]
    /\ EntriesConsumed # {}

\* C33: Rendezvous protocol.  accept_n.send_recv(n) has returned only when
\* exactly n entry requests have been consumed by firings, never more than
\* n are consumed, and once n clients have called entry.recv() the call
\* returns.
C33_Rendezvous ==
    /\ [](Rdv.main = "returned" => Cardinality(EntriesConsumed) = Rdv.n)
    /\ [](Cardinality(EntriesConsumed) <= Rdv.n)
    /\ (Cardinality(Entered) >= Rdv.n) ~> (Rdv.main = "returned")

\* C33 witness: the call with n = 2 has returned and the two clients were
\* released.
C33_Witness ==
    /\ Rdv.n = 2
    /\ Rdv.main = "returned"
    /\ Cardinality(EntriesConsumed) = 2
    /\ \A c \in DOMAIN Rdv.clients : Rdv.clients[c].pc = "done"

\* The number the digits represent, the least significant digit first.
RECURSIVE ValueOf(_)
ValueOf(digits) ==
    IF digits = <<>> THEN 0
    ELSE Head(digits) + (UINT_MAX + 1) * ValueOf(Tail(digits))

\* The order of two numbers.
NumericOrder(x, y) ==
    IF x < y THEN "Less" ELSE IF x > y THEN "Greater" ELSE "Equal"

ItemsOf(items, key) == IF key \in DOMAIN items THEN items[key] ELSE <<>>

\* C35: FIFO multimap operations.  After any sequence of adds and
\* retrieves, count_items of a key is the number of adds on it minus the
\* number of retrieves on it that returned a value, and contains_items holds
\* exactly when that number is positive; a retrieve on a key without items
\* returns nothing and changes nothing; an operation on one key leaves the
\* items of every other key as they were.
C35_BagOperations ==
    /\ [](\A k \in BagKeys :
              /\ probe[1].counts[k] = probe[1].adds[k] - probe[1].taken_out[k]
              /\ probe[1].contains[k] <=> (probe[1].adds[k] - probe[1].taken_out[k] > 0))
    /\ [][ /\ (probe'[1].op = "retrieve"
                  /\ probe[1].adds[probe'[1].key] = probe[1].taken_out[probe'[1].key]) =>
                 /\ is_none(probe'[1].out)
                 /\ probe'[1].items = probe[1].items
           /\ \A k \in BagKeys \ {probe'[1].key} :
                  ItemsOf(probe'[1].items, k) = ItemsOf(probe[1].items, k) ]_vars

\* C35 witness: a key was added to and emptied again, so it is present with
\* no items, a retrieve on it returned nothing, and the other key holds an
\* item.
C35_Witness ==
    /\ probe[1].op = "retrieve"
    /\ probe[1].key \in DOMAIN probe[1].items
    /\ probe[1].adds[probe[1].key] = 1
    /\ probe[1].taken_out[probe[1].key] = 1
    /\ is_none(probe[1].out)
    /\ \E k \in BagKeys \ {probe[1].key} : probe[1].counts[k] = 1

\* The values inserted for the key, in the order of insertion.
RECURSIVE ValuesOn(_, _)
ValuesOn(inserted, key) ==
    IF inserted = <<>> THEN <<>>
    ELSE LET rest == ValuesOn(SubSeq(inserted, 1, Len(inserted) - 1), key)
             e    == inserted[Len(inserted)]
         IN  IF e[1] = key THEN Append(rest, e[2]) ELSE rest

\* C36: Inverted index order.  For every key given to an insert, peek_all
\* is the values inserted for it in the order of insertion, and for every
\* other key nothing; peek_first is the first value ever inserted for the
\* key, and nothing while there is none; an insert under one key leaves the
\* list of every other key as it was.
C36_IndexOrder ==
    /\ [](\A k \in IndexKeys :
              LET values == ValuesOn(probe[1].inserted, k)
              IN  /\ probe[1].all[k] =
                         IF k \in probe[1].keys THEN Some(values) ELSE None
                  /\ probe[1].first[k] =
                         IF values = <<>> THEN None ELSE Some(Head(values)))
    /\ [][ \A k \in IndexKeys :
              /\ is_some(probe[1].first[k]) => probe'[1].first[k] = probe[1].first[k]
              /\ k # probe'[1].key => probe'[1].all[k] = probe[1].all[k] ]_vars

\* C36 witness: a key holds the first value and the third and fourth, the
\* second having been inserted under the other key in between.
C36_Witness ==
    \E k \in IndexKeys :
        /\ probe[1].all[k] = Some(<<1, 3, 4>>)
        /\ probe[1].first[k] = Some(1)
        /\ \E j \in IndexKeys \ {k} : probe[1].all[j] = Some(<<2>>)

\* C37: Registration and identity requests have no effect on messages.  The
\* processing of an AddJoinPatternRequest or a NewChannelIdRequest leaves the
\* inventory, the message counter and the last-fired values of the patterns
\* registered before as they were and fires no pattern, whatever the
\* inventory holds; the processing of a Message packet leaves the registry
\* of patterns, the index and the two id allocators as they were.
C37_RequestFrames ==
    [][ Dequeues =>
          /\ Head(queue).type \in {"AddJoinPatternRequest", "NewChannelIdRequest"} =>
                 /\ UNCHANGED <<messages, message_counter, fired, running, ingested>>
                 /\ \A p \in DOMAIN join_pattern_last_fired :
                        join_pattern_last_fired'[p] = join_pattern_last_fired[p]
          /\ Head(queue).type = "Message" =>
                 UNCHANGED <<join_patterns, join_pattern_index, latest_channel_id,
                             latest_join_pattern_id>> ]_vars

\* C37 witness: two patterns are registered, the first has fired, and the
\* second was registered with the inventory already meeting its
\* requirements and has not fired; a message was counted since.
C37_Witness ==
    /\ Len(join_patterns) = 2
    /\ is_some(join_pattern_last_fired[1])
    /\ is_none(join_pattern_last_fired[2])
    /\ AliveIn(messages, 1)
    /\ message_counter > join_pattern_last_fired[1][1]

\* C38: Last-fired values are distinct and bounded.  Every present
\* last-fired value is at least 1 and at most the message counter, and no two
\* patterns have the same present value, so two patterns compare equal in
\* the selection order only when neither has fired.
C38_LastFiredDistinct ==
    /\ \A p \in DOMAIN join_pattern_last_fired :
           is_some(join_pattern_last_fired[p]) =>
               /\ join_pattern_last_fired[p][1] >= 1
               /\ join_pattern_last_fired[p][1] <= message_counter
    /\ \A p, q \in DOMAIN join_pattern_last_fired :
           (p # q /\ is_some(join_pattern_last_fired[p])
                  /\ is_some(join_pattern_last_fired[q])) =>
               join_pattern_last_fired[p][1] # join_pattern_last_fired[q][1]
    /\ \A p, q \in DOMAIN join_pattern_last_fired :
           (p # q /\ compare_last_fired(join_pattern_last_fired, p - 1, q - 1) = "Equal") =>
               /\ is_none(join_pattern_last_fired[p])
               /\ is_none(join_pattern_last_fired[q])

\* C38 witness: two patterns have fired, the second on the message counted
\* last and the first on an earlier one.
C38_Witness ==
    /\ Len(join_pattern_last_fired) = 2
    /\ is_some(join_pattern_last_fired[1])
    /\ join_pattern_last_fired[2] = Some(message_counter)
    /\ join_pattern_last_fired[1][1] < message_counter

\* Number of occurrences of pattern id p in an index list.
Listed(ids, p) == Cardinality({i \in DOMAIN ids : ids[i] = p})

\* C39: Registry consistency.  The registry, the last-fired table and the
\* index describe the same patterns: the registered ids are 0 .. n-1 with n
\* the next id to give out, every registered id has a last-fired entry and
\* no other id has one, and the index lists id p under channel c once per
\* occurrence of c in the channel list of pattern p and lists no other id.
\* The processing of an AddJoinPatternRequest registers its pattern under
\* the next id, and no step removes or replaces a registered pattern.
C39_RegistryConsistency ==
    /\ [](/\ Len(join_patterns) = latest_join_pattern_id
          /\ DOMAIN join_pattern_last_fired = DOMAIN join_patterns
          /\ \A c \in DOMAIN join_pattern_index :
                 /\ \A p \in 0 .. (Len(join_patterns) - 1) :
                        Listed(join_pattern_index[c], p) =
                            Mult(join_patterns[p + 1].channels, c)
                 /\ \A i \in DOMAIN join_pattern_index[c] :
                        join_pattern_index[c][i] \in 0 .. (Len(join_patterns) - 1))
    /\ [][ IF Dequeues /\ Head(queue).type = "AddJoinPatternRequest"
           THEN join_patterns' = Append(join_patterns, Head(queue).join_pattern)
           ELSE join_patterns' = join_patterns ]_vars

\* C39 witness: two patterns are registered, the second listing a channel
\* twice that the first lists once, and the coordinator has stopped since.
C39_Witness ==
    /\ Len(join_patterns) = 2
    /\ ctrl = "stopped"
    /\ \E c \in DOMAIN join_pattern_index :
           /\ Mult(join_patterns[1].channels, c) = 1
           /\ Mult(join_patterns[2].channels, c) = 2
           /\ join_pattern_index[c] = <<0, 1, 1>>

====
